---- MODULE Spec2Model ----
(***************************************************************************)
(* Reading-position and pagination engine of components/Reader.tsx (the    *)
(* transform-pagination version of the Reader component, lines 1831-3104). *)
(* The rendering surface (epub.js Book / Rendition) is the environment:    *)
(* it delivers `relocated` events, resolves the promises of next(),        *)
(* prev() and locations.generate(), and runs animation-frame and timer     *)
(* callbacks.  Every handler of the component is one action.               *)
(***************************************************************************)
EXTENDS Integers, Sequences, FiniteSets, TLC

(***************************************************************************)
(* Bounds of the model.                                                    *)
(***************************************************************************)
MaxTotal == 2          \* largest book.locations.length() a generation yields
MaxIdx == 1            \* largest location index the renderer reports
MaxCfi == 2            \* fragment identifiers are 0..MaxCfi
MaxSectionPages == 3   \* largest displayed.total of a section
MaxReloc == 1          \* relocated events in flight
MaxInFlight == 1       \* outstanding next()/prev() promises of the buttons
MaxToc == 2            \* entries of the flattened table of contents
MaxTime == 400         \* the clock stops here
TickMs == 100          \* granularity of the clock
MaxOpens == 1          \* books opened after the first one
HideSteps == 2         \* steps in which the 2000 ms of the hide timer pass

(***************************************************************************)
(* Program constants.                                                      *)
(***************************************************************************)
Null == -99            \* the null of a `number | null` ref
DebounceMs == 200      \* if (timeSinceLastNav < 200)
HideMs == 2000         \* setTimeout(..., 2000) of the page indicator
ContainerWidth == 440  \* containerWidthRef.current || ... || 440
ViewportWidth == 100   \* window.innerWidth, in units that make 0.35 = 35

Max(a, b) == IF a >= b THEN a ELSE b
Min(a, b) == IF a <= b THEN a ELSE b

\* the value of lastTap before the first tap
NoTap == [onLink |-> FALSE, hasSelection |-> FALSE, x |-> Null, by |-> "none"]

Cfis == 0..MaxCfi
BadCfi == MaxCfi       \* a fragment identifier the location table cannot resolve
RepIdx == (-1)..MaxIdx \* location indices as the renderer may report them
DispTotals == 1..MaxSectionPages

VARIABLES
  \* environment: clock, DOM, props
  now, viewAvailable, isChatOpen,
  \* builds of the books opened earlier, whose Reader has been unmounted
  abandoned,
  \* rendering surface
  relocQ, rendCfi, locTotal, genState,
  \* outstanding promises, timers and animation frames
  tapNav, nextSectionPending, prevSectionPending, prevTimers, fontTimers, rafPage,
  \* React state of the component
  currentPage, totalPages, isLocationsReady, pagesLeftInChapter,
  currentChapterName, currentLocation,
  \* host application (App.tsx)
  hostCfi, targetLocation,
  \* refs of the component
  pendingPage, pageUpdateScheduled, lastNavigationTime, isNavigating,
  lastRequestedLocationIndex, currentStartLocation, currentEndLocation,
  lastRelocatedStart, lastRelocatedEnd, chapterLocations,
  sectionPage, sectionTotalPages, sectionStartGlobalPage, transformOffset,
  \* page indicator: state, armed hide timer (ms left), queued frame callbacks
  showPageIndicator, hideTimer, indicatorRaf,
  \* observable diagnostics
  stuckDetected,
  \* history variables
  lastSubmitted, coalesced, advCalls, lastAdv, lastReqTime, lastReqAccepted,
  \* ms since the last call of showIndicatorTemporarily (history)
  idle,
  \* the inputs of the last tap the click handler received (history)
  lastTap

envVars == <<now, viewAvailable, isChatOpen, abandoned>>
rendVars == <<relocQ, rendCfi, locTotal, genState>>
asyncVars == <<tapNav, nextSectionPending, prevSectionPending, prevTimers, fontTimers>>
pageVars == <<pendingPage, pageUpdateScheduled, rafPage, lastSubmitted, coalesced>>
locVars == <<currentLocation, hostCfi, targetLocation>>
readyVars == <<totalPages, isLocationsReady, chapterLocations>>
chapterVars == <<pagesLeftInChapter, currentChapterName>>
viewportVars == <<currentStartLocation, currentEndLocation, lastRelocatedStart,
                  lastRelocatedEnd, stuckDetected>>
sectionVars == <<sectionPage, sectionTotalPages, sectionStartGlobalPage, transformOffset>>
tapVars == <<lastNavigationTime, isNavigating, lastRequestedLocationIndex, lastTap>>
histVars == <<advCalls, lastAdv, lastReqTime, lastReqAccepted>>
indVars == <<showPageIndicator, hideTimer, indicatorRaf, idle>>

vars == <<envVars, rendVars, asyncVars, pageVars, locVars, readyVars, chapterVars,
          viewportVars, sectionVars, tapVars, histVars, indVars, currentPage>>

(***************************************************************************)
(* book.locations.locationFromCfi(cfi) of the rendering surface: the       *)
(* index of the sample that holds the fragment, clamped to the table; -1   *)
(* on an empty table; no number for a fragment the table cannot place.     *)
(***************************************************************************)
locationFromCfi(c, total) ==
  IF c = BadCfi THEN Null
  ELSE IF total = 0 THEN -1
  ELSE Min(c, total - 1)

(***************************************************************************)
(* The payload of a `relocated` event: start fragment, end fragment (or    *)
(* none), the renderer's own start/end location indices (or none) and the  *)
(* displayed page count of the section (or none).  The end fragment is     *)
(* read only when the end index is absent.                                 *)
(***************************************************************************)
Events ==
  {ev \in [cfi : Cfis, ecfi : Cfis \cup {Null}, sloc : RepIdx \cup {Null},
           eloc : RepIdx \cup {Null}, dtotal : DispTotals \cup {Null}] :
     ev.eloc # Null => ev.ecfi = Null}

\* Reader.tsx 2349-2382: start index, renderer-supplied first, then from the fragment
startLocationIndexOf(ev, total) ==
  IF ev.sloc # Null THEN ev.sloc ELSE locationFromCfi(ev.cfi, total)

\* Reader.tsx 2361-2387: end index, renderer-supplied, then fragment, then the start
endLocationIndexOf(ev, total) ==
  IF ev.eloc # Null THEN ev.eloc
  ELSE IF ev.ecfi # Null /\ locationFromCfi(ev.ecfi, total) # Null
       THEN locationFromCfi(ev.ecfi, total)
       ELSE startLocationIndexOf(ev, total)

\* Reader.tsx 2406-2417: the condition under which RELOCATED_STUCK_DETECTED is logged
stuckCondition(startIdx, endIdx, prevStart, prevEnd, requested) ==
  /\ startIdx # Null
  /\ endIdx # Null
  /\ prevStart # Null
  /\ prevEnd # Null
  /\ prevStart = startIdx
  /\ prevEnd = endIdx
  /\ requested # Null
  /\ requested > endIdx

(***************************************************************************)
(* Chapter index (Reader.tsx 2753-2785).  A flattened table of contents is *)
(* a sequence of section base fragments; Null is an entry whose href has   *)
(* no spine item.                                                          *)
(***************************************************************************)
Tocs == UNION {[1..n -> Cfis \cup {Null}] : n \in 0..MaxToc}

chapterStart(c, total) ==
  LET r == locationFromCfi(c, total)
  IN  IF r = Null \/ r = 0 THEN 0 ELSE r

chapterEnd(toc, i, total) ==
  LET startLoc == chapterStart(toc[i], total)
      nextLoc == IF i < Len(toc) /\ toc[i + 1] # Null
                 THEN locationFromCfi(toc[i + 1], total) ELSE Null
  IN  IF nextLoc # Null /\ nextLoc > startLoc THEN nextLoc - 1 ELSE total - 1

RECURSIVE chapterLocsFrom(_, _, _)
chapterLocsFrom(toc, i, total) ==
  IF i > Len(toc) THEN <<>>
  ELSE IF toc[i] = Null THEN chapterLocsFrom(toc, i + 1, total)
  ELSE <<[label |-> i,
          startLocationIndex |-> chapterStart(toc[i], total),
          endLocationIndex |-> chapterEnd(toc, i, total)]>>
       \o chapterLocsFrom(toc, i + 1, total)

buildChapterLocs(toc, total) == chapterLocsFrom(toc, 1, total)

\* a lookup that keeps scanning and returns the last chapter that contains the index
RECURSIVE findChapterLast(_, _, _)
findChapterLast(chapters, i, idx) ==
  IF i > Len(chapters) THEN 0
  ELSE LET later == findChapterLast(chapters, i + 1, idx)
       IN  IF later # 0 THEN later
           ELSE IF idx >= chapters[i].startLocationIndex /\ idx <= chapters[i].endLocationIndex
                THEN i
                ELSE 0

\* Reader.tsx 2515-2520: the first chapter, in order, that contains the index; 0 if none
RECURSIVE findChapter(_, _, _)
findChapter(chapters, i, idx) ==
  IF i > Len(chapters) THEN 0
  ELSE IF idx >= chapters[i].startLocationIndex /\ idx <= chapters[i].endLocationIndex
       THEN i
       ELSE findChapter(chapters, i + 1, idx)

(***************************************************************************)
(* updatePageNonBlocking (Reader.tsx 1884-1897): remember the page and,    *)
(* unless a flush is already scheduled, request one animation frame.       *)
(***************************************************************************)
\* updatePageNonBlocking keeping the first value submitted before a flush
updatePageNonBlockingKeepFirst(newPage) ==
  /\ pendingPage' = IF pendingPage = Null THEN newPage ELSE pendingPage
  /\ pageUpdateScheduled' = TRUE
  /\ rafPage' = IF pageUpdateScheduled THEN rafPage ELSE rafPage + 1
  /\ lastSubmitted' = newPage
  /\ coalesced' = (pendingPage # Null)

\* updatePageNonBlocking requesting an animation frame on every call
updatePageNonBlockingAlwaysSchedules(newPage) ==
  /\ pendingPage' = newPage
  /\ pageUpdateScheduled' = TRUE
  /\ rafPage' = rafPage + 1
  /\ lastSubmitted' = newPage
  /\ coalesced' = (pendingPage # Null)

updatePageNonBlocking(newPage) ==
  /\ pendingPage' = newPage
  /\ pageUpdateScheduled' = TRUE
  /\ rafPage' = IF pageUpdateScheduled THEN rafPage ELSE rafPage + 1
  /\ lastSubmitted' = newPage
  /\ coalesced' = (pendingPage # Null)

Init ==
  /\ now = DebounceMs
  /\ viewAvailable = FALSE
  /\ isChatOpen = FALSE
  /\ abandoned = [opens |-> 0, pending |-> 0, completed |-> 0, frames |-> 0, timers |-> 0]
  /\ relocQ = <<[cause |-> "init", cfi |-> Null]>>
  /\ rendCfi = Null
  /\ locTotal = 0
  /\ genState = "pending"
  /\ tapNav = "none"
  /\ nextSectionPending = 0
  /\ prevSectionPending = 0
  /\ prevTimers = <<>>
  /\ fontTimers = <<>>
  /\ rafPage = 0
  /\ currentPage = 1
  /\ totalPages = 1
  /\ isLocationsReady = FALSE
  /\ pagesLeftInChapter = Null
  /\ currentChapterName = 0
  /\ currentLocation = Null
  /\ hostCfi = Null
  /\ targetLocation = Null
  /\ pendingPage = Null
  /\ pageUpdateScheduled = FALSE
  /\ lastNavigationTime = 0
  /\ isNavigating = FALSE
  /\ lastRequestedLocationIndex = Null
  /\ lastTap = NoTap
  /\ currentStartLocation = Null
  /\ currentEndLocation = Null
  /\ lastRelocatedStart = Null
  /\ lastRelocatedEnd = Null
  /\ chapterLocations = <<>>
  /\ sectionPage = 1
  /\ sectionTotalPages = 1
  /\ sectionStartGlobalPage = 1
  /\ transformOffset = 0
  /\ stuckDetected = FALSE
  /\ lastSubmitted = Null
  /\ coalesced = FALSE
  /\ advCalls = 0
  /\ lastAdv = "none"
  /\ lastReqTime = Null
  /\ lastReqAccepted = FALSE
  /\ showPageIndicator = TRUE
  /\ hideTimer = Null
  /\ indicatorRaf = <<>>
  /\ idle = Null

(***************************************************************************)
(* The animation-frame callback of updatePageNonBlocking (1889-1895).      *)
(***************************************************************************)
FlushPageUpdate ==
  /\ rafPage > 0
  /\ rafPage' = rafPage - 1
  /\ currentPage' = IF pendingPage # Null THEN pendingPage ELSE currentPage
  /\ pendingPage' = Null
  /\ pageUpdateScheduled' = FALSE
  /\ lastSubmitted' = Null
  /\ coalesced' = coalesced
  /\ UNCHANGED <<envVars, indVars, rendVars, asyncVars, locVars, readyVars, chapterVars,
                 viewportVars, sectionVars, tapVars, histVars>>

(***************************************************************************)
(* rendition.on('relocated', ...) (Reader.tsx 2301-2549), for an event     *)
(* whose payload is well-formed.  The host callback (App.tsx 310-313)      *)
(* runs inside the handler.                                                *)
(***************************************************************************)
\* the handler updating the Viewport Range once per flush only: an event that
\* arrives while a page update is scheduled leaves the range alone
relocatedResultLastOnly(ev, requested) ==
  LET startIdx == startLocationIndexOf(ev, locTotal)
      endIdx == endLocationIndexOf(ev, locTotal)
      startOk == startIdx # Null /\ startIdx >= 0
      endOk == endIdx # Null /\ endIdx >= 0
      synced == ev.dtotal # Null
      looked == Len(chapterLocations) > 0 /\ startIdx # Null
      ch == IF looked THEN findChapter(chapterLocations, 1, startIdx) ELSE 0
  IN  [stuck |-> stuckCondition(startIdx, endIdx, lastRelocatedStart,
                                lastRelocatedEnd, requested),
       lastStart |-> startIdx,
       lastEnd |-> endIdx,
       secTotal |-> IF synced THEN ev.dtotal ELSE sectionTotalPages,
       secPage |-> IF synced THEN 1 ELSE sectionPage,
       secStart |-> IF synced /\ startOk THEN startIdx + 1 ELSE sectionStartGlobalPage,
       offset |-> IF synced /\ viewAvailable THEN 0 ELSE transformOffset,
       curStart |-> IF startOk /\ ~pageUpdateScheduled THEN startIdx
                    ELSE currentStartLocation,
       curEnd |-> IF endOk /\ ~pageUpdateScheduled THEN endIdx
                  ELSE currentEndLocation,
       page |-> IF startOk THEN Max(1, startIdx + 1) ELSE Null,
       pagesLeft |-> IF ~looked THEN pagesLeftInChapter
                     ELSE IF ch # 0
                          THEN Max(0, chapterLocations[ch].endLocationIndex - startIdx)
                          ELSE Null,
       chapterName |-> IF ~looked THEN currentChapterName
                       ELSE IF ch # 0 THEN chapterLocations[ch].label ELSE 0,
       synced |-> synced]

\* the handler with a remediation of the Stuck condition: the page jumps to the
\* requested index
relocatedResultRemediating(ev, requested) ==
  LET startIdx == startLocationIndexOf(ev, locTotal)
      endIdx == endLocationIndexOf(ev, locTotal)
      startOk == startIdx # Null /\ startIdx >= 0
      endOk == endIdx # Null /\ endIdx >= 0
      synced == ev.dtotal # Null
      looked == Len(chapterLocations) > 0 /\ startIdx # Null
      ch == IF looked THEN findChapter(chapterLocations, 1, startIdx) ELSE 0
  IN  [stuck |-> stuckCondition(startIdx, endIdx, lastRelocatedStart,
                                lastRelocatedEnd, requested),
       lastStart |-> startIdx,
       lastEnd |-> endIdx,
       secTotal |-> IF synced THEN ev.dtotal ELSE sectionTotalPages,
       secPage |-> IF synced THEN 1 ELSE sectionPage,
       secStart |-> IF synced /\ startOk THEN startIdx + 1 ELSE sectionStartGlobalPage,
       offset |-> IF synced /\ viewAvailable THEN 0 ELSE transformOffset,
       curStart |-> IF startOk THEN startIdx ELSE currentStartLocation,
       curEnd |-> IF endOk THEN endIdx ELSE currentEndLocation,
       page |-> IF stuckCondition(startIdx, endIdx, lastRelocatedStart,
                                  lastRelocatedEnd, requested)
                THEN requested + 1
                ELSE IF startOk THEN Max(1, startIdx + 1) ELSE Null,
       pagesLeft |-> IF ~looked THEN pagesLeftInChapter
                     ELSE IF ch # 0
                          THEN Max(0, chapterLocations[ch].endLocationIndex - startIdx)
                          ELSE Null,
       chapterName |-> IF ~looked THEN currentChapterName
                       ELSE IF ch # 0 THEN chapterLocations[ch].label ELSE 0,
       synced |-> synced]

relocatedResult(ev, requested) ==
  LET startIdx == startLocationIndexOf(ev, locTotal)
      endIdx == endLocationIndexOf(ev, locTotal)
      startOk == startIdx # Null /\ startIdx >= 0
      endOk == endIdx # Null /\ endIdx >= 0
      synced == ev.dtotal # Null
      looked == Len(chapterLocations) > 0 /\ startIdx # Null
      ch == IF looked THEN findChapter(chapterLocations, 1, startIdx) ELSE 0
  IN  [stuck |-> stuckCondition(startIdx, endIdx, lastRelocatedStart,
                                lastRelocatedEnd, requested),
       lastStart |-> startIdx,
       lastEnd |-> endIdx,
       secTotal |-> IF synced THEN ev.dtotal ELSE sectionTotalPages,
       secPage |-> IF synced THEN 1 ELSE sectionPage,
       secStart |-> IF synced /\ startOk THEN startIdx + 1 ELSE sectionStartGlobalPage,
       offset |-> IF synced /\ viewAvailable THEN 0 ELSE transformOffset,
       curStart |-> IF startOk THEN startIdx ELSE currentStartLocation,
       curEnd |-> IF endOk THEN endIdx ELSE currentEndLocation,
       page |-> IF startOk THEN Max(1, startIdx + 1) ELSE Null,
       pagesLeft |-> IF ~looked THEN pagesLeftInChapter
                     ELSE IF ch # 0
                          THEN Max(0, chapterLocations[ch].endLocationIndex - startIdx)
                          ELSE Null,
       chapterName |-> IF ~looked THEN currentChapterName
                       ELSE IF ch # 0 THEN chapterLocations[ch].label ELSE 0,
       synced |-> synced]

\* the handler handing the fragment to the host only inside the branch taken
\* when the location table is not empty
relocatedWithHostWhenReady(ev, requested) ==
  LET r == relocatedResult(ev, requested)
  IN
  /\ currentLocation' = ev.cfi
  /\ hostCfi' = IF locTotal > 0 THEN ev.cfi ELSE hostCfi
  /\ targetLocation' = IF locTotal > 0 THEN Null ELSE targetLocation
  /\ rendCfi' = ev.cfi
  /\ IF locTotal > 0
     THEN /\ stuckDetected' = r.stuck
          /\ lastRelocatedStart' = r.lastStart
          /\ lastRelocatedEnd' = r.lastEnd
          /\ sectionTotalPages' = r.secTotal
          /\ sectionPage' = r.secPage
          /\ sectionStartGlobalPage' = r.secStart
          /\ transformOffset' = r.offset
          /\ currentStartLocation' = r.curStart
          /\ currentEndLocation' = r.curEnd
          /\ IF r.page # Null
             THEN updatePageNonBlocking(r.page)
             ELSE UNCHANGED pageVars
          /\ pagesLeftInChapter' = r.pagesLeft
          /\ currentChapterName' = r.chapterName
          /\ advCalls' = IF r.synced THEN 0 ELSE advCalls
          /\ lastAdv' = IF r.synced /\ lastAdv # "retreat" THEN "none" ELSE lastAdv
     ELSE /\ UNCHANGED <<viewportVars, sectionVars, pageVars, chapterVars>>
          /\ UNCHANGED <<advCalls, lastAdv>>

relocatedWith(ev, requested) ==
  LET r == relocatedResult(ev, requested)
  IN
  /\ currentLocation' = ev.cfi
  /\ hostCfi' = ev.cfi
  /\ targetLocation' = Null
  /\ rendCfi' = ev.cfi
  /\ IF locTotal > 0
     THEN /\ stuckDetected' = r.stuck
          /\ lastRelocatedStart' = r.lastStart
          /\ lastRelocatedEnd' = r.lastEnd
          /\ sectionTotalPages' = r.secTotal
          /\ sectionPage' = r.secPage
          /\ sectionStartGlobalPage' = r.secStart
          /\ transformOffset' = r.offset
          /\ currentStartLocation' = r.curStart
          /\ currentEndLocation' = r.curEnd
          /\ IF r.page # Null
             THEN updatePageNonBlocking(r.page)
             ELSE UNCHANGED pageVars
          /\ pagesLeftInChapter' = r.pagesLeft
          /\ currentChapterName' = r.chapterName
          /\ advCalls' = IF r.synced THEN 0 ELSE advCalls
          /\ lastAdv' = IF r.synced /\ lastAdv # "retreat" THEN "none" ELSE lastAdv
     ELSE /\ UNCHANGED <<viewportVars, sectionVars, pageVars, chapterVars>>
          /\ UNCHANGED <<advCalls, lastAdv>>

Relocated(evs) ==
  /\ relocQ # <<>>
  /\ relocQ' = Tail(relocQ)
  /\ \E ev \in evs : relocatedWith(ev, lastRequestedLocationIndex)
  /\ UNCHANGED <<envVars, indVars, locTotal, genState, asyncVars, readyVars, tapVars,
                 lastReqTime, lastReqAccepted, currentPage>>

(***************************************************************************)
(* The handler when a statement inside its try block throws (2323-2548).   *)
(* The statement groups, in order: 1 read loc.start.cfi (2324), 2          *)
(* setCurrentLocation (2328), 3 onLocationChange (2331-2335), 4 index      *)
(* resolution with book.locations.locationFromCfi (2341-2387), 5 stuck     *)
(* check and last-relocated refs (2406-2429), 6 section sync (2432-2475),  *)
(* 7 viewport refs (2481-2487), 8 page update (2501-2507), 9 chapter       *)
(* progress (2510-2537).  A throw at group k leaves the effects of the     *)
(* groups before k; the catch (2541-2548) logs and restores nothing.       *)
(***************************************************************************)
\* the groups that call out of the component, with the transform reset of
\* group 6 not wrapped in its own try/catch
ThrowSitesNoInnerCatch == {1, 3, 4, 7}

\* the groups that can throw: the payload has no start (1), the host's
\* callback throws (3), locationFromCfi throws (4); the transform reset in
\* group 6 has its own try/catch (2462-2474)
ThrowSites == {1, 3, 4}

relocatedThrowsAt(ev, requested, k) ==
  LET r == relocatedResult(ev, requested)
      on == locTotal > 0
  IN
  /\ rendCfi' = ev.cfi
  /\ currentLocation' = IF k > 2 THEN ev.cfi ELSE currentLocation
  /\ hostCfi' = IF k > 3 THEN ev.cfi ELSE hostCfi
  /\ targetLocation' = IF k > 3 THEN Null ELSE targetLocation
  /\ stuckDetected' = IF on /\ k > 5 THEN r.stuck ELSE stuckDetected
  /\ lastRelocatedStart' = IF on /\ k > 5 THEN r.lastStart ELSE lastRelocatedStart
  /\ lastRelocatedEnd' = IF on /\ k > 5 THEN r.lastEnd ELSE lastRelocatedEnd
  /\ sectionTotalPages' = IF on /\ k > 6 THEN r.secTotal ELSE sectionTotalPages
  /\ sectionPage' = IF on /\ k > 6 THEN r.secPage ELSE sectionPage
  /\ sectionStartGlobalPage' = IF on /\ k > 6 THEN r.secStart ELSE sectionStartGlobalPage
  /\ transformOffset' = IF on /\ k > 6 THEN r.offset ELSE transformOffset
  /\ advCalls' = IF on /\ k > 6 /\ r.synced THEN 0 ELSE advCalls
  /\ lastAdv' = IF on /\ k > 6 /\ r.synced /\ lastAdv # "retreat" THEN "none" ELSE lastAdv
  /\ currentStartLocation' = IF on /\ k > 7 THEN r.curStart ELSE currentStartLocation
  /\ currentEndLocation' = IF on /\ k > 7 THEN r.curEnd ELSE currentEndLocation
  /\ IF on /\ k > 8 /\ r.page # Null
     THEN updatePageNonBlocking(r.page)
     ELSE UNCHANGED pageVars
  /\ pagesLeftInChapter' = IF on /\ k > 9 THEN r.pagesLeft ELSE pagesLeftInChapter
  /\ currentChapterName' = IF on /\ k > 9 THEN r.chapterName ELSE currentChapterName

RelocatedThrows(evs) ==
  /\ relocQ # <<>>
  /\ relocQ' = Tail(relocQ)
  /\ \E ev \in evs, k \in ThrowSites :
       /\ k >= 4 => locTotal > 0
       /\ relocatedThrowsAt(ev, lastRequestedLocationIndex, k)
  /\ UNCHANGED <<envVars, indVars, locTotal, genState, asyncVars, readyVars, tapVars,
                 lastReqTime, lastReqAccepted, currentPage>>

(***************************************************************************)
(* A next()/prev()/display() command handed to the rendering surface: it   *)
(* answers with one `relocated` event, delivered later.                    *)
(***************************************************************************)
rendererCommand(cause, cfi) ==
  /\ Len(relocQ) < MaxReloc
  /\ relocQ' = Append(relocQ, [cause |-> cause, cfi |-> cfi])

(***************************************************************************)
(* goToNextPage (Reader.tsx 1995-2029) with applyPageTransform (1958-1992) *)
(* inlined: the transform and sectionPageRef are written only when the     *)
(* content document of the first view exists.                              *)
(***************************************************************************)
\* goToNextPage with the boundary test off by one (<= instead of <)
goToNextPageOffByOne ==
  /\ IF sectionPage <= sectionTotalPages
     THEN /\ sectionPage' = IF viewAvailable THEN sectionPage + 1 ELSE sectionPage
          /\ transformOffset' =
               IF viewAvailable THEN sectionPage * ContainerWidth ELSE transformOffset
          /\ updatePageNonBlocking(sectionStartGlobalPage + ((sectionPage + 1) - 1))
          /\ lastAdv' = "in"
          /\ UNCHANGED <<relocQ, nextSectionPending>>
     ELSE /\ nextSectionPending < MaxInFlight
          /\ rendererCommand("next", Null)
          /\ nextSectionPending' = nextSectionPending + 1
          /\ lastAdv' = "cross"
          /\ UNCHANGED <<sectionPage, transformOffset, pageVars>>
  /\ advCalls' = IF advCalls = Null THEN Null ELSE Min(advCalls + 1, MaxSectionPages + 1)
  /\ UNCHANGED <<sectionTotalPages, sectionStartGlobalPage>>

\* goToNextPage that hands a next command to the renderer inside a section too
goToNextPageAlsoCommands ==
  /\ IF sectionPage < sectionTotalPages
     THEN /\ sectionPage' = IF viewAvailable THEN sectionPage + 1 ELSE sectionPage
          /\ transformOffset' =
               IF viewAvailable THEN sectionPage * ContainerWidth ELSE transformOffset
          /\ updatePageNonBlocking(sectionStartGlobalPage + ((sectionPage + 1) - 1))
          /\ lastAdv' = "in"
          /\ rendererCommand("next", Null)
          /\ UNCHANGED nextSectionPending
     ELSE /\ nextSectionPending < MaxInFlight
          /\ rendererCommand("next", Null)
          /\ nextSectionPending' = nextSectionPending + 1
          /\ lastAdv' = "cross"
          /\ UNCHANGED <<sectionPage, transformOffset, pageVars>>
  /\ advCalls' = IF advCalls = Null THEN Null ELSE Min(advCalls + 1, MaxSectionPages + 1)
  /\ UNCHANGED <<sectionTotalPages, sectionStartGlobalPage>>

goToNextPage ==
  /\ IF sectionPage < sectionTotalPages
     THEN /\ sectionPage' = IF viewAvailable THEN sectionPage + 1 ELSE sectionPage
          /\ transformOffset' =
               IF viewAvailable THEN sectionPage * ContainerWidth ELSE transformOffset
          /\ updatePageNonBlocking(sectionStartGlobalPage + ((sectionPage + 1) - 1))
          /\ lastAdv' = "in"
          /\ UNCHANGED <<relocQ, nextSectionPending>>
     ELSE /\ nextSectionPending < MaxInFlight
          /\ rendererCommand("next", Null)
          /\ nextSectionPending' = nextSectionPending + 1
          /\ lastAdv' = "cross"
          /\ UNCHANGED <<sectionPage, transformOffset, pageVars>>
  /\ advCalls' = IF advCalls = Null THEN Null ELSE Min(advCalls + 1, MaxSectionPages + 1)
  /\ UNCHANGED <<sectionTotalPages, sectionStartGlobalPage>>

\* the then() of rendition.next() in goToNextPage (2021-2027)
NextSectionDone ==
  /\ nextSectionPending > 0
  /\ nextSectionPending' = nextSectionPending - 1
  /\ sectionPage' = 1
  /\ transformOffset' = IF viewAvailable THEN 0 ELSE transformOffset
  /\ advCalls' = 0
  /\ lastAdv' = "none"
  /\ UNCHANGED <<envVars, indVars, rendVars, tapNav, prevSectionPending, prevTimers, fontTimers,
                 pageVars, locVars, readyVars, chapterVars, viewportVars,
                 sectionTotalPages, sectionStartGlobalPage, tapVars,
                 lastReqTime, lastReqAccepted, currentPage>>

(***************************************************************************)
(* goToPrevPage (Reader.tsx 2032-2074).                                    *)
(***************************************************************************)
\* goToPrevPage retreating inside the section from its first page too
goToPrevPageFromFirst ==
  /\ IF sectionPage >= 1
     THEN /\ sectionPage' = IF viewAvailable THEN sectionPage - 1 ELSE sectionPage
          /\ transformOffset' =
               IF viewAvailable THEN ((sectionPage - 1) - 1) * ContainerWidth
               ELSE transformOffset
          /\ updatePageNonBlocking(sectionStartGlobalPage + ((sectionPage - 1) - 1))
          /\ UNCHANGED <<relocQ, prevSectionPending>>
     ELSE /\ prevSectionPending < MaxInFlight
          /\ rendererCommand("prev", Null)
          /\ prevSectionPending' = prevSectionPending + 1
          /\ UNCHANGED <<sectionPage, transformOffset, pageVars>>
  /\ advCalls' = IF sectionPage' = 1 THEN 0 ELSE Null
  /\ lastAdv' = IF sectionPage >= 1 THEN "none" ELSE "retreat"
  /\ UNCHANGED <<sectionTotalPages, sectionStartGlobalPage>>

goToPrevPage ==
  /\ IF sectionPage > 1
     THEN /\ sectionPage' = IF viewAvailable THEN sectionPage - 1 ELSE sectionPage
          /\ transformOffset' =
               IF viewAvailable THEN ((sectionPage - 1) - 1) * ContainerWidth
               ELSE transformOffset
          /\ updatePageNonBlocking(sectionStartGlobalPage + ((sectionPage - 1) - 1))
          /\ UNCHANGED <<relocQ, prevSectionPending>>
     ELSE /\ prevSectionPending < MaxInFlight
          /\ rendererCommand("prev", Null)
          /\ prevSectionPending' = prevSectionPending + 1
          /\ UNCHANGED <<sectionPage, transformOffset, pageVars>>
  /\ advCalls' = IF sectionPage' = 1 THEN 0 ELSE Null
  /\ lastAdv' = IF sectionPage > 1 THEN "none" ELSE "retreat"
  /\ UNCHANGED <<sectionTotalPages, sectionStartGlobalPage>>

\* the then() of rendition.prev() jumping to the new section's last page
\* without storing that section's page count
PrevSectionDoneStaleTotal(totals) ==
  /\ prevSectionPending > 0
  /\ Len(prevTimers) < MaxInFlight
  /\ prevSectionPending' = prevSectionPending - 1
  /\ \E t \in totals :
       LET total == IF t = Null THEN 1 ELSE t
       IN  /\ sectionTotalPages' = sectionTotalPages
           /\ sectionPage' = total
           /\ transformOffset' =
                IF viewAvailable THEN (total - 1) * ContainerWidth ELSE transformOffset
           /\ prevTimers' = Append(prevTimers, total)
           /\ advCalls' = IF total = 1 THEN 0 ELSE Null
  /\ lastAdv' = IF lastAdv = "retreat" THEN "retreat" ELSE "none"
  /\ UNCHANGED <<envVars, indVars, rendVars, tapNav, nextSectionPending, fontTimers,
                 pageVars, locVars, readyVars, chapterVars, viewportVars,
                 sectionStartGlobalPage, tapVars, lastReqTime, lastReqAccepted,
                 currentPage>>

\* the then() of rendition.prev() in goToPrevPage (2055-2072); t is what
\* rendition.currentLocation() reports as displayed.total at that moment
PrevSectionDone(totals) ==
  /\ prevSectionPending > 0
  /\ Len(prevTimers) < MaxInFlight
  /\ prevSectionPending' = prevSectionPending - 1
  /\ \E t \in totals :
       LET total == IF t = Null THEN 1 ELSE t
       IN  /\ sectionTotalPages' = total
           /\ sectionPage' = total
           /\ transformOffset' =
                IF viewAvailable THEN (total - 1) * ContainerWidth ELSE transformOffset
           /\ prevTimers' = Append(prevTimers, total)
           /\ advCalls' = IF total = 1 THEN 0 ELSE Null
  /\ lastAdv' = IF lastAdv = "retreat" THEN "retreat" ELSE "none"
  /\ UNCHANGED <<envVars, indVars, rendVars, tapNav, nextSectionPending, fontTimers,
                 pageVars, locVars, readyVars, chapterVars, viewportVars,
                 sectionStartGlobalPage, tapVars, lastReqTime, lastReqAccepted,
                 currentPage>>

\* the 50 ms timer set by the then() of rendition.prev() (2067-2071)
PrevTimerFired ==
  /\ prevTimers # <<>>
  /\ prevTimers' = Tail(prevTimers)
  /\ updatePageNonBlocking(sectionStartGlobalPage + (Head(prevTimers) - 1))
  /\ UNCHANGED <<envVars, indVars, rendVars, tapNav, nextSectionPending, prevSectionPending,
                 fontTimers, locVars, readyVars, chapterVars, viewportVars, sectionVars,
                 tapVars, histVars, currentPage>>

(***************************************************************************)
(* The page indicator (Reader.tsx 2872-2897).  showIndicatorTemporarily    *)
(* only queues a frame callback; the callback shows the indicator, clears  *)
(* the timer held in hideTimerRef and arms a new one of 2000 ms; the timer *)
(* queues a second frame callback that hides the indicator.  A frame runs  *)
(* every callback queued before it, in the order they were queued, so two  *)
(* adjacent show callbacks act as one.  Only a show callback arms a timer  *)
(* and it clears the previous one first: at most one timer is armed.       *)
(***************************************************************************)
showIndicatorTemporarily ==
  /\ indicatorRaf' =
       IF indicatorRaf # <<>> /\ indicatorRaf[Len(indicatorRaf)] = "show"
       THEN indicatorRaf
       ELSE Append(indicatorRaf, "show")
  /\ idle' = 0
  /\ UNCHANGED <<showPageIndicator, hideTimer>>

\* the indicator state after the callbacks q have run on state st
RECURSIVE runIndicatorCallbacks(_, _)
runIndicatorCallbacks(q, st) ==
  IF q = <<>> THEN st
  ELSE runIndicatorCallbacks(Tail(q),
         IF Head(q) = "show"
         THEN [show |-> TRUE, timer |-> HideMs]
         ELSE [show |-> FALSE, timer |-> st.timer])

\* the show callbacks (2876-2896) among the queued frame callbacks
showFrames(q) == Cardinality({i \in 1..Len(q) : q[i] = "show"})

\* an animation frame: the queued callbacks of the indicator run (2876-2896)
IndicatorFrame ==
  /\ indicatorRaf # <<>>
  /\ LET st == runIndicatorCallbacks(indicatorRaf,
                  [show |-> showPageIndicator, timer |-> hideTimer])
     IN  /\ showPageIndicator' = st.show
         /\ hideTimer' = st.timer
  /\ indicatorRaf' = <<>>
  /\ UNCHANGED <<envVars, rendVars, asyncVars, pageVars, locVars, readyVars, chapterVars,
                 viewportVars, sectionVars, tapVars, histVars, idle, currentPage>>

\* a hide timer whose expiry queues nothing
HideTimerFiredNoHide ==
  /\ hideTimer = 0
  /\ hideTimer' = Null
  /\ UNCHANGED <<envVars, rendVars, asyncVars, pageVars, locVars, readyVars, chapterVars,
                 viewportVars, sectionVars, tapVars, histVars, showPageIndicator, idle,
                 indicatorRaf, currentPage>>

\* the hide timer expires (2887-2894): it queues the hiding callback
HideTimerFired ==
  /\ hideTimer = 0
  /\ hideTimer' = Null
  /\ indicatorRaf' = Append(indicatorRaf, "hide")
  /\ UNCHANGED <<envVars, rendVars, asyncVars, pageVars, locVars, readyVars, chapterVars,
                 viewportVars, sectionVars, tapVars, histVars, showPageIndicator, idle,
                 currentPage>>

\* HideMs \div HideSteps ms pass for the armed timer and since the last call
Elapse ==
  /\ \/ hideTimer # Null /\ hideTimer > 0
     \/ idle # Null /\ idle < HideMs
  /\ hideTimer' = IF hideTimer = Null THEN Null
                  ELSE Max(0, hideTimer - HideMs \div HideSteps)
  /\ idle' = IF idle = Null THEN Null ELSE Min(HideMs, idle + HideMs \div HideSteps)
  /\ UNCHANGED <<envVars, rendVars, asyncVars, pageVars, locVars, readyVars, chapterVars,
                 viewportVars, sectionVars, tapVars, histVars, showPageIndicator,
                 indicatorRaf, currentPage>>

(***************************************************************************)
(* The Next / Previous buttons (Reader.tsx 3044-3090).                     *)
(***************************************************************************)
ButtonNext ==
  /\ goToNextPage
  /\ lastReqTime' = now
  /\ lastReqAccepted' = TRUE
  /\ showIndicatorTemporarily
  /\ UNCHANGED <<envVars, rendCfi, locTotal, genState, tapNav, prevSectionPending,
                 prevTimers, fontTimers, locVars, readyVars, chapterVars, viewportVars,
                 tapVars, currentPage>>

ButtonPrev ==
  /\ goToPrevPage
  /\ lastReqTime' = now
  /\ lastReqAccepted' = TRUE
  /\ showIndicatorTemporarily
  /\ UNCHANGED <<envVars, rendCfi, locTotal, genState, tapNav, nextSectionPending,
                 prevTimers, fontTimers, locVars, readyVars, chapterVars, viewportVars,
                 tapVars, currentPage>>

(***************************************************************************)
(* clickHandler (Reader.tsx 2570-2704): a tap inside the rendered content. *)
(* onLink: the target is inside an anchor; hasSelection: the document has  *)
(* a non-empty selection; tapX: e.clientX.                                 *)
(***************************************************************************)
TapXs == {34, 35, 65, 66}

\* a center zone that excludes its two bounds
tapIsCenterExclusive(tapX) == tapX * 100 > 35 * ViewportWidth /\ tapX * 100 < 65 * ViewportWidth

tapIsCenter(tapX) == tapX * 100 >= 35 * ViewportWidth /\ tapX * 100 <= 65 * ViewportWidth

tapDirection(tapX) == IF tapX * 100 < 35 * ViewportWidth THEN "PREV" ELSE "NEXT"

\* the guards that drop a tap, in the order the handler evaluates them
tapDropped(onLink, hasSelection, tapX) ==
  \/ onLink
  \/ isChatOpen
  \/ hasSelection
  \/ now - lastNavigationTime < DebounceMs
  \/ isNavigating
  \/ tapIsCenter(tapX)

\* the guards with the overlay tested before the link
tapDroppedByOverlayFirst(onLink, hasSelection, tapX) ==
  IF isChatOpen THEN "overlay"
  ELSE IF onLink THEN "link"
  ELSE IF hasSelection THEN "selection"
  ELSE IF now - lastNavigationTime < DebounceMs THEN "debounce"
  ELSE IF isNavigating THEN "inProgress"
  ELSE IF tapIsCenter(tapX) THEN "center"
  ELSE "none"

\* the guard at which the handler returns (the BLOCKED line it logs), "none"
\* for a tap that is accepted (2576-2638)
tapDroppedBy(onLink, hasSelection, tapX) ==
  IF onLink THEN "link"
  ELSE IF isChatOpen THEN "overlay"
  ELSE IF hasSelection THEN "selection"
  ELSE IF now - lastNavigationTime < DebounceMs THEN "debounce"
  ELSE IF isNavigating THEN "inProgress"
  ELSE IF tapIsCenter(tapX) THEN "center"
  ELSE "none"

\* a tap that asks for a navigation: not on a link, no overlay, no selection, a side zone
tapIsRequest(onLink, hasSelection, tapX) ==
  ~onLink /\ ~isChatOpen /\ ~hasSelection /\ ~tapIsCenter(tapX)

\* a handler that stamps the time of a tap it drops in the debounce window
TapWithStampsDropped(onLink, hasSelection, tapX) ==
    /\ IF tapDropped(onLink, hasSelection, tapX)
       THEN /\ lastNavigationTime' =
                 IF tapDroppedBy(onLink, hasSelection, tapX) = "debounce"
                 THEN now ELSE lastNavigationTime
            /\ UNCHANGED <<isNavigating, tapNav, relocQ, indVars>>
       ELSE /\ lastNavigationTime' = now
            /\ isNavigating' = TRUE
            /\ tapNav' = tapDirection(tapX)
            /\ rendererCommand(IF tapDirection(tapX) = "NEXT" THEN "next" ELSE "prev", Null)
            /\ showIndicatorTemporarily
    /\ lastTap' = [onLink |-> onLink, hasSelection |-> hasSelection, x |-> tapX,
                   by |-> tapDroppedBy(onLink, hasSelection, tapX)]
    /\ IF tapIsRequest(onLink, hasSelection, tapX)
       THEN /\ lastReqTime' = now
            /\ lastReqAccepted' = ~tapDropped(onLink, hasSelection, tapX)
       ELSE UNCHANGED <<lastReqTime, lastReqAccepted>>
    /\ UNCHANGED <<envVars, rendCfi, locTotal, genState, nextSectionPending,
                   prevSectionPending, prevTimers, fontTimers, pageVars, locVars,
                   readyVars, chapterVars, viewportVars, sectionVars,
                   lastRequestedLocationIndex, advCalls, lastAdv, currentPage>>

TapWith(onLink, hasSelection, tapX) ==
    /\ IF tapDropped(onLink, hasSelection, tapX)
       THEN UNCHANGED <<lastNavigationTime, isNavigating, tapNav, relocQ, indVars>>
       ELSE /\ lastNavigationTime' = now
            /\ isNavigating' = TRUE
            /\ tapNav' = tapDirection(tapX)
            /\ rendererCommand(IF tapDirection(tapX) = "NEXT" THEN "next" ELSE "prev", Null)
            /\ showIndicatorTemporarily
    /\ lastTap' = [onLink |-> onLink, hasSelection |-> hasSelection, x |-> tapX,
                   by |-> tapDroppedBy(onLink, hasSelection, tapX)]
    /\ IF tapIsRequest(onLink, hasSelection, tapX)
       THEN /\ lastReqTime' = now
            /\ lastReqAccepted' = ~tapDropped(onLink, hasSelection, tapX)
       ELSE UNCHANGED <<lastReqTime, lastReqAccepted>>
    /\ UNCHANGED <<envVars, rendCfi, locTotal, genState, nextSectionPending,
                   prevSectionPending, prevTimers, fontTimers, pageVars, locVars,
                   readyVars, chapterVars, viewportVars, sectionVars,
                   lastRequestedLocationIndex, advCalls, lastAdv, currentPage>>

Tap ==
  \E onLink \in BOOLEAN, hasSelection \in BOOLEAN, tapX \in TapXs :
    TapWith(onLink, hasSelection, tapX)

\* a tap in a side zone, off any link, with nothing selected
SideTap ==
  \E tapX \in {34, 66} : TapWith(FALSE, FALSE, tapX)

\* a tap in a side zone that passes every guard and whose rendition.next() or
\* rendition.prev() throws instead of returning a promise (2666): the
\* timestamp and the flag are written (2640, 2647), no then() or catch() is
\* attached, and the exception leaves the handler before line 2703
TapThrows ==
  \E tapX \in {34, 66} :
    /\ ~tapDropped(FALSE, FALSE, tapX)
    /\ lastNavigationTime' = now
    /\ isNavigating' = TRUE
    /\ lastTap' = [onLink |-> FALSE, hasSelection |-> FALSE, x |-> tapX, by |-> "none"]
    /\ lastReqTime' = now
    /\ lastReqAccepted' = TRUE
    /\ UNCHANGED <<envVars, indVars, rendVars, asyncVars, pageVars, locVars, readyVars,
                   chapterVars, viewportVars, sectionVars, lastRequestedLocationIndex,
                   advCalls, lastAdv, currentPage>>

\* then() and catch() of the tap's navigation promise (2668-2701)
TapNavDone ==
  /\ tapNav # "none"
  /\ tapNav' = "none"
  /\ isNavigating' = FALSE
  /\ UNCHANGED <<envVars, indVars, rendVars, nextSectionPending, prevSectionPending, prevTimers,
                 fontTimers, pageVars, locVars, readyVars, chapterVars, viewportVars,
                 sectionVars, lastNavigationTime, lastRequestedLocationIndex, lastTap,
                 histVars,
                 currentPage>>

(***************************************************************************)
(* Completion of book.locations.generate(1000) (Reader.tsx 2720-2811).     *)
(* The awaited navigation and spine promises are already resolved when     *)
(* book.ready is, so the whole continuation runs without interleaving.     *)
(***************************************************************************)
LocationsGenerated(totals, tocs) ==
  /\ genState = "pending"
  /\ genState' = "done"
  /\ \E total \in totals, toc \in tocs :
       /\ locTotal' = total
       /\ totalPages' = total
       /\ chapterLocations' = buildChapterLocs(toc, total)
       /\ currentPage' =
            IF rendCfi # Null
            THEN LET locationIndex == locationFromCfi(rendCfi, total)
                 IN  Max(1, (IF locationIndex = Null THEN 0 ELSE locationIndex) + 1)
            ELSE currentPage
  /\ isLocationsReady' = TRUE
  /\ UNCHANGED <<envVars, indVars, relocQ, rendCfi, asyncVars, pageVars, locVars, chapterVars,
                 viewportVars, sectionVars, tapVars, histVars>>

\* the chapter build throws while it resolves entry k of the table (spine.get
\* at 2758/2766 or locationFromCfi at 2761/2769): the try block that holds the
\* whole loop is left for its catch (2788-2793), the local chapterLocs is
\* dropped before the assignment at 2785, and the chain goes on at 2796;
\* setTotalPages and setIsLocationsReady have run (2727-2728)
LocationsGeneratedThrows(totals, tocs) ==
  /\ genState = "pending"
  /\ genState' = "done"
  /\ \E total \in totals, toc \in tocs :
       /\ \E k \in 1..Len(toc) : toc[k] # Null
       /\ locTotal' = total
       /\ totalPages' = total
       /\ currentPage' =
            IF rendCfi # Null
            THEN LET locationIndex == locationFromCfi(rendCfi, total)
                 IN  Max(1, (IF locationIndex = Null THEN 0 ELSE locationIndex) + 1)
            ELSE currentPage
  /\ isLocationsReady' = TRUE
  /\ UNCHANGED <<envVars, indVars, relocQ, rendCfi, asyncVars, pageVars, locVars, chapterVars,
                 chapterLocations, viewportVars, sectionVars, tapVars, histVars>>

\* a catch() that publishes the location table although generation failed
LocationsFailedMarksReady ==
  /\ genState = "pending"
  /\ genState' = "failed"
  /\ isLocationsReady' = TRUE
  /\ UNCHANGED <<envVars, indVars, relocQ, rendCfi, locTotal, asyncVars, pageVars, locVars,
                 totalPages, chapterLocations, chapterVars, viewportVars, sectionVars,
                 tapVars, histVars, currentPage>>

\* a catch() that builds the chapter table although generation failed
LocationsFailedBuildsChapters ==
  /\ genState = "pending"
  /\ genState' = "failed"
  /\ chapterLocations' = buildChapterLocs(<<0>>, MaxTotal)
  /\ UNCHANGED <<envVars, indVars, relocQ, rendCfi, locTotal, asyncVars, pageVars, locVars,
                 totalPages, isLocationsReady, chapterVars, viewportVars, sectionVars,
                 tapVars, histVars, currentPage>>

\* the catch() of the generation chain (2806-2811)
LocationsFailed ==
  /\ genState = "pending"
  /\ genState' = "failed"
  /\ UNCHANGED <<envVars, indVars, relocQ, rendCfi, locTotal, asyncVars, pageVars, locVars,
                 readyVars, chapterVars, viewportVars, sectionVars, tapVars, histVars,
                 currentPage>>

(***************************************************************************)
(* The font-size effect (Reader.tsx 2825-2855): a 50 ms timer that resizes *)
(* and redisplays at the currentLocation captured when the effect ran.     *)
(***************************************************************************)
FontSizeChange ==
  /\ fontTimers = <<>>
  /\ fontTimers' = Append(fontTimers, currentLocation)
  /\ UNCHANGED <<envVars, indVars, rendVars, tapNav, nextSectionPending, prevSectionPending,
                 prevTimers, pageVars, locVars, readyVars, chapterVars, viewportVars,
                 sectionVars, tapVars, histVars, currentPage>>

FontTimerFired ==
  /\ fontTimers # <<>>
  /\ fontTimers' = Tail(fontTimers)
  /\ IF Head(fontTimers) # Null
     THEN rendererCommand("display", Head(fontTimers))
     ELSE UNCHANGED relocQ
  /\ UNCHANGED <<envVars, indVars, rendCfi, locTotal, genState, tapNav, nextSectionPending,
                 prevSectionPending, prevTimers, pageVars, locVars, readyVars,
                 chapterVars, viewportVars, sectionVars, tapVars, histVars, currentPage>>

(***************************************************************************)
(* The host jumps to a bookmark (App.tsx 380-383): setTargetLocation(cfi)  *)
(* changes the location prop of the Reader (App.tsx 664), and the location *)
(* effect (Reader.tsx 2865-2869) runs when the prop has changed.  The host *)
(* callback of a relocation sets the prop to null (App.tsx 312), for which *)
(* the effect does nothing.                                                *)
(***************************************************************************)
\* an effect that displays every non-null location it is given
locationEffectDisplaysAlways(location, current) == location # Null

\* Reader.tsx 2866: location && location !== currentLocation
locationEffectDisplays(location, current) == location # Null /\ location # current

GoToBookmark(cfis) ==
  /\ \E cfi \in cfis :
       /\ targetLocation' = cfi
       /\ IF targetLocation # cfi /\ locationEffectDisplays(cfi, currentLocation)
          THEN rendererCommand("display", cfi)
          ELSE UNCHANGED relocQ
  /\ UNCHANGED <<envVars, indVars, rendCfi, locTotal, genState, asyncVars, pageVars,
                 currentLocation, hostCfi, readyVars, chapterVars, viewportVars,
                 sectionVars, tapVars, histVars, currentPage>>

(***************************************************************************)
(* Environment.                                                            *)
(***************************************************************************)
Tick ==
  /\ now < MaxTime
  /\ now' = now + TickMs
  /\ UNCHANGED <<viewAvailable, isChatOpen, abandoned, indVars, rendVars, asyncVars, pageVars, locVars,
                 readyVars, chapterVars, viewportVars, sectionVars, tapVars, histVars,
                 currentPage>>

\* the content document of the first view appears or goes away (section load)
ViewChange ==
  /\ viewAvailable' = ~viewAvailable
  /\ UNCHANGED <<now, isChatOpen, abandoned, indVars, rendVars, asyncVars, pageVars, locVars, readyVars,
                 chapterVars, viewportVars, sectionVars, tapVars, histVars, currentPage>>

\* the isChatOpen prop and its ref (Reader.tsx 1900-1903)
ChatToggle ==
  /\ isChatOpen' = ~isChatOpen
  /\ UNCHANGED <<now, viewAvailable, abandoned, indVars, rendVars, asyncVars, pageVars, locVars, readyVars,
                 chapterVars, viewportVars, sectionVars, tapVars, histVars, currentPage>>

(***************************************************************************)
(* A different book is opened.  The host renders the Reader with           *)
(* key={activeBook.id} (App.tsx 657-660), so the mounted Reader is         *)
(* unmounted, its book effect is cleaned up (Reader.tsx 2813-2822: the     *)
(* book is destroyed) and a new Reader is mounted with the initial values  *)
(* of its state and refs (1864-1930).  Nothing cancels the generation      *)
(* chain of the old book: it stays in flight, bound to the setters and the *)
(* refs of the unmounted Reader.  The unmount clears the armed hide timer   *)
(* (2913-2919) but cancels no animation frame: the show callbacks already  *)
(* requested (2876) still run, in the unmounted Reader.                    *)
(***************************************************************************)
\* the book effect re-run in the same Reader (no key on the element): state is
\* set again by the effect and its handlers, the refs keep the old book's values
OpenBookSameReader ==
  /\ abandoned.opens < MaxOpens
  /\ abandoned' = [opens |-> abandoned.opens + 1,
                   pending |-> abandoned.pending + (IF genState = "pending" THEN 1 ELSE 0),
                   completed |-> abandoned.completed,
                   frames |-> abandoned.frames,
                   timers |-> abandoned.timers]
  /\ viewAvailable' = FALSE
  /\ relocQ' = <<[cause |-> "init", cfi |-> Null]>>
  /\ rendCfi' = Null
  /\ locTotal' = 0
  /\ genState' = "pending"
  /\ tapNav' = "none"
  /\ nextSectionPending' = 0
  /\ prevSectionPending' = 0
  /\ prevTimers' = <<>>
  /\ fontTimers' = <<>>
  /\ rafPage' = 0
  /\ currentPage' = 1
  /\ totalPages' = 1
  /\ isLocationsReady' = FALSE
  /\ pagesLeftInChapter' = Null
  /\ currentChapterName' = 0
  /\ currentLocation' = Null
  /\ hostCfi' = Null
  /\ targetLocation' = Null
  /\ pendingPage' = Null
  /\ pageUpdateScheduled' = FALSE
  /\ lastNavigationTime' = 0
  /\ isNavigating' = FALSE
  /\ lastRequestedLocationIndex' = Null
  /\ lastTap' = NoTap
  /\ stuckDetected' = FALSE
  /\ lastSubmitted' = Null
  /\ coalesced' = FALSE
  /\ advCalls' = 0
  /\ lastAdv' = "none"
  /\ lastReqTime' = Null
  /\ lastReqAccepted' = FALSE
  /\ showPageIndicator' = TRUE
  /\ hideTimer' = Null
  /\ indicatorRaf' = <<>>
  /\ idle' = Null
  /\ UNCHANGED <<now, isChatOpen, chapterLocations, currentStartLocation,
                 currentEndLocation, lastRelocatedStart, lastRelocatedEnd, sectionVars>>

OpenBook ==
  /\ abandoned.opens < MaxOpens
  /\ abandoned' = [opens |-> abandoned.opens + 1,
                   pending |-> abandoned.pending + (IF genState = "pending" THEN 1 ELSE 0),
                   completed |-> abandoned.completed,
                   frames |-> abandoned.frames + showFrames(indicatorRaf),
                   timers |-> abandoned.timers]
  /\ viewAvailable' = FALSE
  /\ relocQ' = <<[cause |-> "init", cfi |-> Null]>>
  /\ rendCfi' = Null
  /\ locTotal' = 0
  /\ genState' = "pending"
  /\ tapNav' = "none"
  /\ nextSectionPending' = 0
  /\ prevSectionPending' = 0
  /\ prevTimers' = <<>>
  /\ fontTimers' = <<>>
  /\ rafPage' = 0
  /\ currentPage' = 1
  /\ totalPages' = 1
  /\ isLocationsReady' = FALSE
  /\ pagesLeftInChapter' = Null
  /\ currentChapterName' = 0
  /\ currentLocation' = Null
  /\ hostCfi' = Null
  /\ targetLocation' = Null
  /\ pendingPage' = Null
  /\ pageUpdateScheduled' = FALSE
  /\ lastNavigationTime' = 0
  /\ isNavigating' = FALSE
  /\ lastRequestedLocationIndex' = Null
  /\ lastTap' = NoTap
  /\ currentStartLocation' = Null
  /\ currentEndLocation' = Null
  /\ lastRelocatedStart' = Null
  /\ lastRelocatedEnd' = Null
  /\ chapterLocations' = <<>>
  /\ sectionPage' = 1
  /\ sectionTotalPages' = 1
  /\ sectionStartGlobalPage' = 1
  /\ transformOffset' = 0
  /\ stuckDetected' = FALSE
  /\ lastSubmitted' = Null
  /\ coalesced' = FALSE
  /\ advCalls' = 0
  /\ lastAdv' = "none"
  /\ lastReqTime' = Null
  /\ lastReqAccepted' = FALSE
  /\ showPageIndicator' = TRUE
  /\ hideTimer' = Null
  /\ indicatorRaf' = <<>>
  /\ idle' = Null
  /\ UNCHANGED <<now, isChatOpen>>

\* the completion of an abandoned chain in a Reader that is reused for the
\* next book instead of being remounted: its then() writes the state the new
\* book shows
AbandonedBuildDoneSameReader ==
  /\ abandoned.pending > 0
  /\ abandoned' = [abandoned EXCEPT !.pending = @ - 1, !.completed = @ + 1]
  /\ totalPages' = MaxTotal
  /\ isLocationsReady' = TRUE
  /\ chapterLocations' = buildChapterLocs(<<>>, MaxTotal)
  /\ currentPage' =
       IF rendCfi # Null
       THEN LET locationIndex == locationFromCfi(rendCfi, MaxTotal)
            IN  Max(1, (IF locationIndex = Null THEN 0 ELSE locationIndex) + 1)
       ELSE currentPage
  /\ UNCHANGED <<now, viewAvailable, isChatOpen, indVars, rendVars, asyncVars, pageVars, locVars,
                 chapterVars, viewportVars, sectionVars, tapVars, histVars>>

\* the then() or catch() of an abandoned chain (2724-2811) runs: its
\* setTotalPages, setIsLocationsReady, setCurrentPage and chapterLocationsRef
\* are those of the unmounted Reader, or it throws on the destroyed book and
\* ends in its catch(); the mounted Reader is not touched
AbandonedBuildDone ==
  /\ abandoned.pending > 0
  /\ abandoned' = [abandoned EXCEPT !.pending = @ - 1, !.completed = @ + 1]
  /\ UNCHANGED <<now, viewAvailable, isChatOpen, indVars, rendVars, asyncVars, pageVars, locVars,
                 readyVars, chapterVars, viewportVars, sectionVars, tapVars, histVars,
                 currentPage>>

\* a show callback requested by a Reader that has been unmounted since runs
\* (2876-2896): hideTimerRef of that Reader holds the id the cleanup cleared,
\* and the callback arms a new timer of 2000 ms
AbandonedFrame ==
  /\ abandoned.frames > 0
  /\ abandoned' = [abandoned EXCEPT !.frames = @ - 1, !.timers = @ + 1]
  /\ UNCHANGED <<now, viewAvailable, isChatOpen, indVars, rendVars, asyncVars, pageVars, locVars,
                 readyVars, chapterVars, viewportVars, sectionVars, tapVars, histVars,
                 currentPage>>

\* the hide timer of an unmounted Reader expires (2887-2894)
AbandonedTimerFired ==
  /\ abandoned.timers > 0
  /\ abandoned' = [abandoned EXCEPT !.timers = @ - 1]
  /\ UNCHANGED <<now, viewAvailable, isChatOpen, indVars, rendVars, asyncVars, pageVars, locVars,
                 readyVars, chapterVars, viewportVars, sectionVars, tapVars, histVars,
                 currentPage>>

(***************************************************************************)
(* Payloads of a renderer that reports an in-table start index and a       *)
(* one-location viewport, and the payloads of any renderer.                *)
(***************************************************************************)
EventsPlain ==
  {ev \in [cfi : Cfis \ {BadCfi}, ecfi : {Null}, sloc : 0..MaxIdx,
           eloc : 0..MaxIdx, dtotal : DispTotals \cup {Null}] :
     ev.eloc = ev.sloc}

\* the same, all at one fragment: what matters is the section they enter
EventsSection ==
  {ev \in [cfi : {0}, ecfi : {Null}, sloc : {0, MaxIdx}, eloc : {0, MaxIdx},
           dtotal : DispTotals \cup {Null}] :
     ev.eloc = ev.sloc}

\* payloads of any renderer in a book of one-page sections: any start and end
\* index, in or out of the table, or none; no end fragment
EventsAnyIndex ==
  [cfi : Cfis, ecfi : {Null}, sloc : RepIdx \cup {Null},
   eloc : RepIdx \cup {Null}, dtotal : {Null, 1}]

\* payloads at the start of the book: a section of one page (no page count
\* reported) or of two
EventsNav ==
  [cfi : {0}, ecfi : {Null}, sloc : {0}, eloc : {0}, dtotal : {Null, 2}]

\* payloads with a Viewport Range inside the table, at one fragment, entering
\* a section of one page or of MaxSectionPages pages
EventsViewport ==
  {ev \in [cfi : {0}, ecfi : {Null}, sloc : 0..MaxIdx, eloc : 0..MaxIdx,
           dtotal : {Null, MaxSectionPages}] :
     ev.sloc <= ev.eloc}

\* payloads entering, at either end of the index range, a section of one
\* page or of MaxSectionPages pages
EventsCoalesce ==
  {ev \in [cfi : {0}, ecfi : {Null}, sloc : {0, MaxIdx}, eloc : {0, MaxIdx},
           dtotal : {Null, MaxSectionPages}] :
     ev.eloc = ev.sloc}

\* payloads whose start index is supplied, in or out of the table, or has to
\* be resolved from the fragment, and whose end index is supplied or missing
EventsResolve ==
  [cfi : {MaxCfi - 1, BadCfi}, ecfi : {Null}, sloc : {-1, 0, MaxIdx, Null},
   eloc : {MaxIdx, Null}, dtotal : {Null}]

\* a table of contents of two chapters, the second starting at the last fragment
\* the table resolves
TwoChapters == {<<0, MaxCfi - 1>>}

\* payloads whose own indices are never out of order: both indices are
\* supplied (either may be negative) or both are missing, and a supplied
\* non-negative start is not beyond a supplied non-negative end
EventsOrdered ==
  {ev \in [cfi : Cfis, ecfi : {Null}, sloc : RepIdx \cup {Null},
            eloc : RepIdx \cup {Null}, dtotal : {Null}] :
     /\ (ev.sloc = Null) <=> (ev.eloc = Null)
     /\ (ev.sloc # Null /\ ev.sloc >= 0 /\ ev.eloc >= 0) => ev.sloc <= ev.eloc}

\* payloads entering a section of one page or of MaxSectionPages pages, with
\* a start index that is negative or the first
EventsFloor ==
  {ev \in [cfi : {0}, ecfi : {Null}, sloc : {-1, 0}, eloc : {-1, 0},
            dtotal : {Null, MaxSectionPages}] :
     ev.eloc = ev.sloc}

\* payloads that always carry the displayed page count of the section entered
EventsDisplayed ==
  {ev \in [cfi : {0}, ecfi : {Null}, sloc : {0, MaxIdx}, eloc : {0, MaxIdx},
            dtotal : DispTotals] :
     ev.eloc = ev.sloc}

\* payloads of sections that all have MaxSectionPages displayed pages
EventsLong ==
  {ev \in [cfi : {0}, ecfi : {Null}, sloc : {0, MaxIdx}, eloc : {0, MaxIdx},
            dtotal : {MaxSectionPages}] :
     ev.eloc = ev.sloc}

\* payloads at two fragments, in one-page sections or without displayed
\* page information, with a Viewport Range inside the table
EventsThrow ==
  [cfi : {0, 1}, ecfi : {Null}, sloc : {0, MaxIdx}, eloc : {MaxIdx}, dtotal : {Null, 1}]

\* payloads that exercise each source of an index: supplied by the renderer
\* or not, a start fragment the table resolves or not, an end fragment or none
EventsPriority ==
  {ev \in [cfi : {0, BadCfi}, ecfi : {MaxCfi - 1, Null}, sloc : {MaxIdx, Null},
           eloc : {MaxIdx, Null}, dtotal : {Null}] :
     ev.eloc # Null => ev.ecfi = Null}

NoToc == {<<>>}

\* payloads whose start index is supplied, inside the table or negative, or
\* resolved from the first fragment
EventsLookup ==
  [cfi : {0}, ecfi : {Null}, sloc : {-1, 0, MaxIdx, Null}, eloc : {MaxIdx}, dtotal : {Null}]

\* tables of contents that leave front matter out of every chapter, that tile
\* the book with two chapters, and that list the same section twice
TocsLookup == {<<MaxCfi - 1>>, <<0, MaxCfi - 1>>, <<0, 0>>}

\* flattened tables of contents whose entries all have a spine item and a
\* base fragment the location table resolves
TocsResolved == UNION {[1..n -> Cfis \ {BadCfi}] : n \in 1..MaxToc}

(***************************************************************************)
(* The whole component.                                                    *)
(***************************************************************************)
Next ==
  \/ IndicatorFrame
  \/ HideTimerFired
  \/ Elapse
  \/ OpenBook
  \/ AbandonedBuildDone
  \/ AbandonedFrame
  \/ AbandonedTimerFired
  \/ Relocated(Events)
  \/ RelocatedThrows(Events)
  \/ FlushPageUpdate
  \/ ButtonNext
  \/ NextSectionDone
  \/ ButtonPrev
  \/ PrevSectionDone(DispTotals \cup {Null})
  \/ PrevTimerFired
  \/ Tap
  \/ TapThrows
  \/ TapNavDone
  \/ LocationsGenerated(0..MaxTotal, Tocs)
  \/ LocationsGeneratedThrows(0..MaxTotal, Tocs)
  \/ LocationsFailed
  \/ FontSizeChange
  \/ FontTimerFired
  \/ GoToBookmark(Cfis)
  \/ Tick
  \/ ViewChange
  \/ ChatToggle

Spec == Init /\ [][Next]_vars

(***************************************************************************)
(* The transform pagination fallback driven by the Next button.            *)
(***************************************************************************)
NextAdvance ==
  \/ LocationsGenerated({MaxTotal}, NoToc)
  \/ Relocated(EventsSection)
  \/ FlushPageUpdate
  \/ ButtonNext
  \/ NextSectionDone
  \/ ViewChange

SpecAdvance == Init /\ [][NextAdvance]_vars

(***************************************************************************)
(* The fallback driven by both buttons, with the deferred page update of   *)
(* a retreat across a section boundary.                                    *)
(***************************************************************************)
NextPaging ==
  \/ LocationsGenerated({MaxTotal}, NoToc)
  \/ Relocated(EventsSection)
  \/ FlushPageUpdate
  \/ ButtonNext
  \/ NextSectionDone
  \/ ButtonPrev
  \/ PrevSectionDone(DispTotals \cup {Null})
  \/ PrevTimerFired
  \/ ViewChange

SpecPaging == Init /\ [][NextPaging]_vars

(***************************************************************************)
(* The relocation state tracker fed by any renderer: generation of a       *)
(* non-empty index, or its failure, payloads with any indices, and the     *)
(* redisplay after a font-size change as the source of further events.     *)
(***************************************************************************)
NextTracker ==
  \/ LocationsGenerated(1..MaxTotal, NoToc)
  \/ LocationsFailed
  \/ Relocated(EventsAnyIndex)
  \/ FlushPageUpdate
  \/ FontSizeChange
  \/ FontTimerFired

SpecTracker == Init /\ [][NextTracker]_vars

(***************************************************************************)
(* The chapter index built from any table of contents, and the chapter     *)
(* lookup of the relocations that follow.                                  *)
(***************************************************************************)
NextChapters ==
  \/ LocationsGenerated(1..MaxTotal, Tocs)
  \/ Relocated(EventsPlain)
  \/ FlushPageUpdate
  \/ FontSizeChange
  \/ FontTimerFired

SpecChapters == Init /\ [][NextChapters]_vars

(***************************************************************************)
(* The redisplay at the current fragment after a font-size change, in a    *)
(* book read through the transform fallback.                               *)
(***************************************************************************)
NextRedisplay ==
  \/ LocationsGenerated({MaxTotal}, NoToc)
  \/ Relocated(EventsSection)
  \/ FlushPageUpdate
  \/ ButtonNext
  \/ NextSectionDone
  \/ FontSizeChange
  \/ FontTimerFired
  \/ ViewChange

SpecRedisplay == Init /\ [][NextRedisplay]_vars

(***************************************************************************)
(* Navigation requests from both input paths, taps in the content and the  *)
(* two buttons, with the clock of the debounce window.                     *)
(***************************************************************************)
NextNav ==
  \/ LocationsGenerated({MaxTotal}, NoToc)
  \/ Relocated(EventsNav)
  \/ FlushPageUpdate
  \/ SideTap
  \/ TapNavDone
  \/ ButtonNext
  \/ NextSectionDone
  \/ ButtonPrev
  \/ PrevSectionDone({Null, 2})
  \/ PrevTimerFired
  \/ Tick

SpecNav == Init /\ [][NextNav]_vars

(***************************************************************************)
(* Relocations that may repeat the previous Viewport Range while forward   *)
(* navigation is requested through the Next button.                        *)
(***************************************************************************)
NextStuck ==
  \/ LocationsGenerated({MaxTotal}, NoToc)
  \/ Relocated(EventsViewport)
  \/ FlushPageUpdate
  \/ ButtonNext
  \/ NextSectionDone

SpecStuck == Init /\ [][NextStuck]_vars

(***************************************************************************)
(* The page-update coalescer fed by its three callers: the relocation      *)
(* handler, the in-section advance and retreat, and the deferred update    *)
(* after a retreat across a section boundary.                              *)
(***************************************************************************)
NextCoalesce ==
  \/ LocationsGenerated({MaxTotal}, NoToc)
  \/ Relocated(EventsCoalesce)
  \/ FlushPageUpdate
  \/ ButtonNext
  \/ NextSectionDone
  \/ ButtonPrev
  \/ PrevSectionDone({Null, MaxSectionPages})
  \/ PrevTimerFired

SpecCoalesce == Init /\ [][NextCoalesce]_vars

(***************************************************************************)
(* Relocations of a book with chapters, several of which may be processed  *)
(* before one flush; the redisplay after a font-size change is the source  *)
(* of the further events.                                                  *)
(***************************************************************************)
NextPerEvent ==
  \/ LocationsGenerated({MaxTotal}, TwoChapters)
  \/ Relocated(EventsResolve)
  \/ FlushPageUpdate
  \/ FontSizeChange
  \/ FontTimerFired

SpecPerEvent == Init /\ [][NextPerEvent]_vars

(***************************************************************************)
(* The Viewport Range under relocations whose indices may be missing or    *)
(* negative but are never reported out of order.                           *)
(***************************************************************************)
NextViewport ==
  \/ LocationsGenerated({MaxTotal}, NoToc)
  \/ Relocated(EventsOrdered)
  \/ FlushPageUpdate
  \/ FontSizeChange
  \/ FontTimerFired

SpecViewport == Init /\ [][NextViewport]_vars

(***************************************************************************)
(* Every writer of the page number: generation, relocations (also with a   *)
(* negative index), advance and retreat inside a section and across its    *)
(* boundaries, the deferred update of a retreat, and the flush.  The       *)
(* content document is not reachable, so no visual offset is applied.      *)
(***************************************************************************)
NextFloor ==
  \/ LocationsGenerated({MaxTotal}, NoToc)
  \/ Relocated(EventsFloor)
  \/ FlushPageUpdate
  \/ ButtonNext
  \/ NextSectionDone
  \/ ButtonPrev
  \/ PrevSectionDone({Null, MaxSectionPages})
  \/ PrevTimerFired

SpecFloor == Init /\ [][NextFloor]_vars

(***************************************************************************)
(* The section-local page state under relocations, advance and retreat and *)
(* the late completions of their section-crossing commands, with the       *)
(* content document coming and going.  The page number is written but      *)
(* never read by these handlers, so its flush is left out.                 *)
(***************************************************************************)
NextSection ==
  \/ LocationsGenerated({MaxTotal}, NoToc)
  \/ Relocated(EventsCoalesce)
  \/ ButtonNext
  \/ NextSectionDone
  \/ ButtonPrev
  \/ PrevSectionDone({Null, MaxSectionPages})
  \/ PrevTimerFired
  \/ ViewChange

SpecSection == Init /\ [][NextSection]_vars

(***************************************************************************)
(* Advance through sections whose relocations always report the displayed  *)
(* page count, so that every relocation synchronises the section state.    *)
(***************************************************************************)
NextSync ==
  \/ LocationsGenerated({MaxTotal}, NoToc)
  \/ Relocated(EventsDisplayed)
  \/ FlushPageUpdate
  \/ ButtonNext
  \/ NextSectionDone
  \/ ViewChange

SpecSync == Init /\ [][NextSync]_vars

(***************************************************************************)
(* Retreat through sections of MaxSectionPages pages: the previous-section *)
(* command, its completion, the relocation it causes and the deferred page *)
(* update, in any order.                                                   *)
(***************************************************************************)
NextRetreat ==
  \/ LocationsGenerated({MaxTotal}, NoToc)
  \/ Relocated(EventsLong)
  \/ FlushPageUpdate
  \/ ButtonPrev
  \/ PrevSectionDone({MaxSectionPages})
  \/ PrevTimerFired
  \/ ViewChange

SpecRetreat == Init /\ [][NextRetreat]_vars

(***************************************************************************)
(* Failed generation: the generation chain ends in its catch() or in its   *)
(* then(), and the reader keeps navigating with buttons and taps.          *)
(***************************************************************************)
NextFailure ==
  \/ LocationsGenerated({MaxTotal}, NoToc)
  \/ LocationsFailed
  \/ Relocated(EventsNav)
  \/ FlushPageUpdate
  \/ SideTap
  \/ TapNavDone
  \/ ButtonNext
  \/ NextSectionDone
  \/ ButtonPrev
  \/ PrevSectionDone({2})
  \/ PrevTimerFired

SpecFailure == Init /\ [][NextFailure]_vars

(***************************************************************************)
(* Relocations whose processing completes or throws, in a book with        *)
(* chapters, with the advance that causes them.                            *)
(***************************************************************************)
NextThrow ==
  \/ LocationsGenerated({MaxTotal}, TwoChapters)
  \/ Relocated(EventsThrow)
  \/ RelocatedThrows(EventsThrow)
  \/ FlushPageUpdate
  \/ ButtonNext
  \/ NextSectionDone

SpecThrow == Init /\ [][NextThrow]_vars

(***************************************************************************)
(* Opening a different book while the previous book's generation is still  *)
(* running, with the relocations and advances of the book on display.      *)
(***************************************************************************)
NextReopen ==
  \/ OpenBook
  \/ AbandonedBuildDone
  \/ LocationsGenerated({MaxTotal}, TwoChapters)
  \/ LocationsFailed
  \/ Relocated(EventsNav)
  \/ FlushPageUpdate
  \/ ButtonNext
  \/ NextSectionDone

SpecReopen == Init /\ [][NextReopen]_vars

(***************************************************************************)
(* The page indicator driven by the Next button: the calls of              *)
(* showIndicatorTemporarily, the frames, the hide timer and the passing of *)
(* time, with the section crossings the button causes.                     *)
(***************************************************************************)
NextIndicator ==
  \/ ButtonNext
  \/ NextSectionDone
  \/ Relocated(EventsNav)
  \/ IndicatorFrame
  \/ HideTimerFired
  \/ Elapse

SpecIndicator == Init /\ [][NextIndicator]_vars

\* the same, with frames painted, armed timers expiring and time passing
SpecIndicatorLive ==
  /\ SpecIndicator
  /\ WF_vars(IndicatorFrame)
  /\ WF_vars(HideTimerFired)
  /\ WF_vars(Elapse)

(***************************************************************************)
(* The click handler with every input it distinguishes: taps on and off    *)
(* links, with and without a selection, in the three zones and on their    *)
(* bounds, with the overlay opening and closing and the clock advancing.   *)
(***************************************************************************)
NextTap ==
  \/ Tap
  \/ TapNavDone
  \/ Relocated(EventsNav)
  \/ Tick
  \/ ChatToggle

SpecTap == Init /\ [][NextTap]_vars

(***************************************************************************)
(* Relocations whose indices come from each of the sources the handler     *)
(* consults, after generation and after a redisplay.                       *)
(***************************************************************************)
NextPriority ==
  \/ LocationsGenerated({MaxTotal}, NoToc)
  \/ Relocated(EventsPriority)
  \/ FlushPageUpdate
  \/ FontSizeChange
  \/ FontTimerFired

SpecPriority == Init /\ [][NextPriority]_vars

(***************************************************************************)
(* Advances and retreats inside sections of MaxSectionPages pages and      *)
(* across their boundaries, with the content document coming and going.    *)
(***************************************************************************)
NextLocal ==
  \/ LocationsGenerated({MaxTotal}, NoToc)
  \/ Relocated(EventsLong)
  \/ ButtonNext
  \/ NextSectionDone
  \/ ButtonPrev
  \/ PrevSectionDone({MaxSectionPages})
  \/ PrevTimerFired
  \/ ViewChange

SpecLocal == Init /\ [][NextLocal]_vars

(***************************************************************************)
(* The chapter index built from tables of contents whose entries all       *)
(* resolve, in any order of their fragments, and the relocations that      *)
(* follow.                                                                 *)
(***************************************************************************)
NextToc ==
  \/ LocationsGenerated(1..MaxTotal, TocsResolved)
  \/ Relocated(EventsPlain)
  \/ FlushPageUpdate
  \/ FontSizeChange
  \/ FontTimerFired

SpecToc == Init /\ [][NextToc]_vars

(***************************************************************************)
(* The chapter lookup of relocations in books whose chapters leave a gap,  *)
(* tile the book or overlap.                                               *)
(***************************************************************************)
NextLookup ==
  \/ LocationsGenerated({MaxTotal}, TocsLookup)
  \/ Relocated(EventsLookup)
  \/ FlushPageUpdate
  \/ FontSizeChange
  \/ FontTimerFired

SpecLookup == Init /\ [][NextLookup]_vars

(***************************************************************************)
(* The chapter build of a book of two chapters, completing or throwing at  *)
(* one of its entries, and the relocations looked up afterwards.           *)
(***************************************************************************)
NextBuild ==
  \/ LocationsGenerated({MaxTotal}, TwoChapters)
  \/ LocationsGeneratedThrows({MaxTotal}, TwoChapters)
  \/ Relocated(EventsLookup)
  \/ FlushPageUpdate
  \/ FontSizeChange
  \/ FontTimerFired

SpecBuild == Init /\ [][NextBuild]_vars

(***************************************************************************)
(* The page indicator of a Reader that is closed by opening another book:  *)
(* the triggers of the Next button, the frames, the hide timers of the     *)
(* mounted Reader and of the unmounted one, and the passing of time.       *)
(***************************************************************************)
NextClose ==
  \/ OpenBook
  \/ ButtonNext
  \/ NextSectionDone
  \/ Relocated(EventsNav)
  \/ IndicatorFrame
  \/ HideTimerFired
  \/ Elapse
  \/ AbandonedFrame
  \/ AbandonedTimerFired

SpecClose == Init /\ [][NextClose]_vars

(***************************************************************************)
(* Relocations at two fragments before and after generation, or after its  *)
(* failure, caused by the first display, by advances across sections and   *)
(* by the redisplay after a font-size change.                              *)
(***************************************************************************)
NextResume ==
  \/ LocationsGenerated({MaxTotal}, NoToc)
  \/ LocationsFailed
  \/ Relocated(EventsThrow)
  \/ FlushPageUpdate
  \/ ButtonNext
  \/ NextSectionDone
  \/ FontSizeChange
  \/ FontTimerFired

SpecResume == Init /\ [][NextResume]_vars

(***************************************************************************)
(* Tap navigation whose renderer command settles, as a resolved or a       *)
(* rejected promise, or throws when it is called.                          *)
(***************************************************************************)
NextTapSettle ==
  \/ SideTap
  \/ TapThrows
  \/ TapNavDone
  \/ Relocated(EventsNav)
  \/ Tick

SpecTapSettle == Init /\ [][NextTapSettle]_vars

\* the same, with every navigation promise settling
SpecTapSettleLive == SpecTapSettle /\ WF_vars(TapNavDone)

(***************************************************************************)
(* Jumps to bookmarks at two fragments, the relocations they and the       *)
(* redisplay after a font-size change cause, before and after generation.  *)
(***************************************************************************)
NextJump ==
  \/ LocationsGenerated({MaxTotal}, NoToc)
  \/ Relocated(EventsThrow)
  \/ FlushPageUpdate
  \/ GoToBookmark({0, 1})
  \/ FontSizeChange
  \/ FontTimerFired

SpecJump == Init /\ [][NextJump]_vars

(***************************************************************************)
(* Properties.                                                             *)
(***************************************************************************)

\* the page number the indicator shows once the pending update is flushed
EffPage == IF pendingPage # Null THEN pendingPage ELSE currentPage

\* C2: every advance() made while sectionPage < sectionTotalPages raises
\* sectionPage by 1 and the global page by exactly 1, sectionPage never
\* decreases by an advance(), the call made at sectionPage =
\* sectionTotalPages issues the next-section command, and the completion of
\* that command leaves sectionPage = 1.
C2_AdvanceWithinSection ==
  [][/\ ButtonNext =>
          /\ sectionPage' >= sectionPage
          /\ IF sectionPage < sectionTotalPages
             THEN /\ sectionPage' = sectionPage + 1
                  /\ EffPage' = EffPage + 1
             ELSE nextSectionPending' = nextSectionPending + 1
     /\ NextSectionDone => sectionPage' = 1]_vars

C1_PageWithinTotal ==
  isLocationsReady => (totalPages >= 1 /\ currentPage \in 1..totalPages)

\* C4: the location-index ranges [startLocationIndex, endLocationIndex] of
\* the chapter entries are pairwise disjoint: no index lies in two chapters.
C4_ChapterRangesDisjoint ==
  \A i, j \in 1..Len(chapterLocations) :
    i < j =>
      Max(chapterLocations[i].startLocationIndex, chapterLocations[j].startLocationIndex)
        > Min(chapterLocations[i].endLocationIndex, chapterLocations[j].endLocationIndex)

\* C5: when display() was called with the fragment last reported by a
\* relocation and the resulting relocation (same fragment, same start index)
\* is processed on a settled page, the page shown after the flush is the page
\* shown before, also when the reader had advanced inside the section.
C5_RedisplayKeepsPage ==
  [][(/\ relocQ # <<>>
      /\ Head(relocQ).cause = "display"
      /\ Head(relocQ).cfi = currentLocation
      /\ relocQ' = Tail(relocQ)
      /\ currentLocation' = currentLocation
      /\ lastRelocatedStart' = lastRelocatedStart
      /\ pendingPage = Null)
     => EffPage' = currentPage]_vars

\* a step that is a navigation request: a button press, or a tap that is
\* neither on a link, nor while the chat is open, nor a selection, nor in the
\* centre band
NavRequest ==
  \/ ButtonNext
  \/ ButtonPrev
  \/ \E onLink \in BOOLEAN, hasSelection \in BOOLEAN, tapX \in TapXs :
       tapIsRequest(onLink, hasSelection, tapX) /\ TapWith(onLink, hasSelection, tapX)

\* navigation commands handed to the renderer and not yet completed
commandsInFlight ==
  (IF tapNav # "none" THEN 1 ELSE 0) + nextSectionPending + prevSectionPending

\* C6: of two navigation requests less than 200 ms apart exactly one is
\* accepted: the first was accepted and the second is not.
C6_DebounceExactlyOne ==
  [][(NavRequest /\ lastReqTime # Null /\ now - lastReqTime < DebounceMs)
     => (lastReqAccepted /\ ~lastReqAccepted')]_vars

\* C7: while an accepted navigation's renderer command has not completed, a
\* new request from either input path issues no second command: at most one
\* next/prev command is ever in flight and none is queued.
C7_SingleFlight == commandsInFlight <= 1

\* C8: a relocation that answers a forward navigation (a request beyond the
\* viewport's end) and reports the same Viewport Range as the previous
\* relocation flags the Stuck condition.
C8_StuckFlagged ==
  [][(/\ relocQ # <<>>
      /\ Head(relocQ).cause = "next"
      /\ relocQ' = Tail(relocQ)
      /\ locTotal > 0
      /\ lastRelocatedStart # Null
      /\ lastRelocatedEnd # Null
      /\ lastRelocatedStart' = lastRelocatedStart
      /\ lastRelocatedEnd' = lastRelocatedEnd)
     => stuckDetected']_vars

\* the indices a navigation can request
RequestedIdx == 0..(MaxIdx + 1)

C10_LastValueOnly ==
  /\ [](rafPage <= 1)
  /\ [](pendingPage # Null => (rafPage = 1 /\ pendingPage = lastSubmitted))
  /\ [][rafPage' < rafPage =>
          /\ rafPage' = 0
          /\ pendingPage' = Null
          /\ currentPage' = IF lastSubmitted # Null THEN lastSubmitted ELSE currentPage]_vars
  /\ [][(currentPage' # currentPage /\ genState' = genState) =>
          (rafPage' < rafPage /\ currentPage' = lastSubmitted)]_vars

\* C10 witness: several updates were submitted before one paint and a single
\* flush has applied a page to the indicator
C10_Witness ==
  /\ coalesced
  /\ rafPage = 0
  /\ pendingPage = Null
  /\ ~pageUpdateScheduled
  /\ currentPage > 1

C12_ViewportOrdered ==
  (currentStartLocation # Null /\ currentEndLocation # Null)
    => currentStartLocation <= currentEndLocation

\* C13: the displayed global page number is always at least 1, and so is
\* every value waiting to be flushed into it.
C13_PageAtLeastOne ==
  /\ currentPage >= 1
  /\ pendingPage # Null => pendingPage >= 1

\* C13 witness: a retreat across a section boundary has completed, its
\* deferred update has run, a retreat inside the section has followed, and the
\* flush has shown the resulting page
C13_Witness ==
  /\ isLocationsReady
  /\ sectionTotalPages = MaxSectionPages
  /\ sectionPage = MaxSectionPages
  /\ prevSectionPending = 0
  /\ prevTimers = <<>>
  /\ coalesced
  /\ rafPage = 0
  /\ pendingPage = Null
  /\ currentPage = sectionStartGlobalPage + (MaxSectionPages - 1) - 1

C15_PageMatchesSection ==
  (pendingPage = Null /\ rafPage = 0)
    => currentPage = sectionStartGlobalPage + (sectionPage - 1)

\* C16: once a retreat made at sectionPage = 1 has settled (command
\* completed, relocation processed by a tracker whose location index is
\* ready, deferred update run, page flushed), sectionPage is the section's
\* page count and the displayed page is the section's last page.
C16_RetreatSettles ==
  (/\ lastAdv = "retreat"
   /\ lastRelocatedStart # Null
   /\ prevSectionPending = 0
   /\ prevTimers = <<>>
   /\ relocQ = <<>>
   /\ rafPage = 0
   /\ pendingPage = Null)
    => /\ sectionPage = sectionTotalPages
       /\ currentPage = sectionStartGlobalPage + (sectionTotalPages - 1)


\* C17: once location generation has failed the table stays not ready (the
\* ready flag stays false, the total stays unknown, generation is not run
\* again), the failure changes nothing else, and navigation requests still
\* reach the renderer: a button request at a section boundary and every tap
\* that is not dropped hand a command to the renderer.
C17_FailureKeepsNavigating ==
  [][(genState = "failed" \/ genState' = "failed")
       => /\ genState' = "failed"
          /\ ~isLocationsReady'
          /\ locTotal' = 0
          /\ totalPages' = 1
          /\ chapterLocations' = <<>>
          /\ (genState = "pending" => UNCHANGED <<relocQ, currentPage, pageVars, sectionVars>>)
          /\ (ButtonNext /\ sectionPage >= sectionTotalPages)
               => relocQ' = Append(relocQ, [cause |-> "next", cfi |-> Null])
          /\ (ButtonPrev /\ sectionPage <= 1)
               => relocQ' = Append(relocQ, [cause |-> "prev", cfi |-> Null])
          /\ (\E onLink \in BOOLEAN, hasSelection \in BOOLEAN, tapX \in TapXs :
                 ~tapDropped(onLink, hasSelection, tapX) /\ TapWith(onLink, hasSelection, tapX))
               => Len(relocQ') = Len(relocQ) + 1]_vars

\* generation has failed, a relocation was processed and a boundary request
\* made afterwards is in flight at the renderer
C17_Witness ==
  /\ genState = "failed"
  /\ ~isLocationsReady
  /\ currentLocation # Null
  /\ lastAdv = "cross"
  /\ nextSectionPending > 0
  /\ relocQ # <<>>


\* C18: during a cold start (generation still running: the table is not
\* ready and the total is unknown) a next() request at the section boundary
\* reaches the renderer, and when the relocation fired by a next() command is
\* processed the tracker holds a Viewport Range for it: both ends known,
\* inside the event's table, start no later than end.
C18_ColdStartViewport ==
  [][genState = "pending"
       => /\ ~isLocationsReady /\ totalPages = 1
          /\ (ButtonNext /\ sectionPage >= sectionTotalPages)
               => relocQ' = Append(relocQ, [cause |-> "next", cfi |-> Null])
          /\ (Len(relocQ') < Len(relocQ) /\ Head(relocQ).cause = "next")
               => /\ currentStartLocation' # Null
                  /\ currentEndLocation' # Null
                  /\ currentStartLocation' <= currentEndLocation']_vars


\* C19: when the processing of a relocation event throws, the handler ends
\* without raising (the event is consumed and later events are processed)
\* and the tracker state is what it was before the event: Viewport Range,
\* last-relocated range, section-local state, current page (shown and
\* pending) and chapter progress are unchanged.
C19_ThrowLeavesTracker ==
  [][RelocatedThrows(EventsThrow)
       => /\ relocQ' = Tail(relocQ)
          /\ UNCHANGED <<currentStartLocation, currentEndLocation>>
          /\ UNCHANGED <<lastRelocatedStart, lastRelocatedEnd>>
          /\ UNCHANGED sectionVars
          /\ UNCHANGED <<currentPage, pendingPage, rafPage>>
          /\ UNCHANGED chapterVars]_vars

\* a relocation was tracked inside a chapter and the processing of a
\* relocation threw in the host's callback: the fragment held by the
\* component is not the one the host holds
C19_Witness ==
  /\ locTotal > 0
  /\ lastRelocatedStart # Null
  /\ currentStartLocation # Null
  /\ pagesLeftInChapter # Null
  /\ currentLocation # Null
  /\ hostCfi # currentLocation


\* C20: when the build of a book that is no longer open completes, the
\* total, the ready flag, the page (shown and pending) and the chapter range
\* table of the book on display do not change.
C20_AbandonedBuildNotApplied ==
  [][abandoned'.completed > abandoned.completed
       => /\ UNCHANGED <<totalPages, isLocationsReady, chapterLocations>>
          /\ UNCHANGED <<currentPage, pendingPage, rafPage>>]_vars

\* the previous book's build has completed while the book on display, whose
\* first relocation has been processed, is still generating its table
C20_Witness ==
  /\ abandoned.completed > 0
  /\ abandoned.pending = 0
  /\ genState = "pending"
  /\ ~isLocationsReady
  /\ totalPages = 1
  /\ chapterLocations = <<>>
  /\ currentLocation # Null


\* C21: opening a different book discards the previous book's chapter range
\* table, ready flag, Viewport Range and section-local state, and until the
\* new book's own generation completes the table is not ready, there is no
\* chapter range and no chapter progress is reported.
C21_ReopenDiscards ==
  [][/\ abandoned'.opens > abandoned.opens
          => /\ chapterLocations' = <<>>
             /\ ~isLocationsReady' /\ totalPages' = 1
             /\ currentStartLocation' = Null /\ currentEndLocation' = Null
             /\ lastRelocatedStart' = Null /\ lastRelocatedEnd' = Null
             /\ sectionPage' = 1 /\ sectionTotalPages' = 1
             /\ sectionStartGlobalPage' = 1 /\ transformOffset' = 0
     /\ genState' = "pending"
          => /\ ~isLocationsReady'
             /\ chapterLocations' = <<>>
             /\ pagesLeftInChapter' = Null
             /\ currentStartLocation' = Null]_vars

\* a second book is open, its first relocation has been processed and its
\* generation is still running; the first book's generation had completed
C21_Witness ==
  /\ abandoned.opens > 0
  /\ abandoned.pending = 0
  /\ abandoned.completed = 0
  /\ genState = "pending"
  /\ relocQ = <<>>
  /\ currentLocation # Null
  /\ chapterLocations = <<>>


\* C22: once the show callback of the latest qualifying activity has run,
\* the indicator is visible for as long as less than the full timeout
\* (HideMs) has passed since that activity: a hide scheduled by an earlier
\* activity does not hide it.
C22_VisibleUntilTimeout ==
  (/\ idle # Null
   /\ idle < HideMs
   /\ \A i \in 1..Len(indicatorRaf) : indicatorRaf[i] # "show")
    => showPageIndicator


\* C23: if from some point on no further qualifying activity occurs, then
\* whenever an activity has called for the indicator, the indicator is
\* eventually hidden (frames are painted and timers expire).
C23_EventuallyHidden ==
  (<>[][~ButtonNext]_vars) => [](idle # Null => <>(~showPageIndicator))

\* the full timeout has passed since the last activity, its timer has
\* expired and its hiding callback has run
C23_Witness ==
  /\ idle = HideMs
  /\ hideTimer = Null
  /\ indicatorRaf = <<>>
  /\ ~showPageIndicator


\* C24: a tap that passes the link, overlay and selection guards (and is not
\* dropped by the debounce or the single-flight guard) is classified by its
\* horizontal fraction: below 0.35 it issues a previous-page command, above
\* 0.65 a next-page command, and from 0.35 to 0.65, bounds included, none.
C24_TapClassification ==
  [][\A tapX \in TapXs :
       (/\ TapWith(FALSE, FALSE, tapX)
        /\ ~isChatOpen
        /\ now - lastNavigationTime >= DebounceMs
        /\ ~isNavigating)
         => IF tapX * 100 < 35 * ViewportWidth
            THEN /\ relocQ' = Append(relocQ, [cause |-> "prev", cfi |-> Null])
                 /\ tapNav' = "PREV"
            ELSE IF tapX * 100 > 65 * ViewportWidth
            THEN /\ relocQ' = Append(relocQ, [cause |-> "next", cfi |-> Null])
                 /\ tapNav' = "NEXT"
            ELSE UNCHANGED <<relocQ, tapNav, isNavigating, lastNavigationTime>>]_vars

\* a tap exactly on the lower bound of the center zone passed every guard
\* and no navigation has ever been issued
C24_Witness ==
  /\ lastTap.x * 100 = 35 * ViewportWidth
  /\ ~lastTap.onLink
  /\ ~lastTap.hasSelection
  /\ ~isChatOpen
  /\ lastNavigationTime = 0
  /\ tapNav = "none"
  /\ relocQ = <<>>


\* C25: a tap in the center zone (fraction from 0.35 to 0.65) that passes the
\* link, overlay and selection guards issues no navigation and calls for the
\* indicator, whether or not the debounce window or a navigation in progress
\* would have dropped it.
C25_CenterTapShowsIndicator ==
  [][\A tapX \in TapXs :
       (/\ TapWith(FALSE, FALSE, tapX)
        /\ ~isChatOpen
        /\ tapX * 100 >= 35 * ViewportWidth
        /\ tapX * 100 <= 65 * ViewportWidth)
         => /\ UNCHANGED <<relocQ, tapNav, isNavigating, lastNavigationTime>>
            /\ idle' = 0
            /\ indicatorRaf' # <<>>]_vars


\* C26: a tap on a document-internal link, or with the overlay open, or with
\* a non-empty selection issues no navigation command and leaves the
\* debounce timestamp and the in-progress flag as they were; the handler
\* returns at the link guard first, then at the overlay guard, then at the
\* selection guard.
C26_GuardedTapIsInert ==
  [][\A onLink \in BOOLEAN, hasSelection \in BOOLEAN, tapX \in TapXs :
       (/\ TapWith(onLink, hasSelection, tapX)
        /\ (onLink \/ isChatOpen \/ hasSelection))
         => /\ UNCHANGED <<relocQ, tapNav, lastNavigationTime, isNavigating>>
            /\ lastTap'.by = IF onLink THEN "link"
                             ELSE IF isChatOpen THEN "overlay"
                             ELSE "selection"]_vars

\* with the overlay open and text selected, a side tap on a link arrived
\* long after an accepted navigation had completed, and returned at the
\* link guard
C26_Witness ==
  /\ lastTap.onLink
  /\ lastTap.hasSelection
  /\ lastTap.by = "link"
  /\ lastTap.x * 100 > 65 * ViewportWidth
  /\ isChatOpen
  /\ lastNavigationTime = DebounceMs
  /\ now = MaxTime
  /\ ~isNavigating
  /\ tapNav = "none"


\* C27: a tap dropped by any guard (link, overlay, selection, debounce,
\* single-flight, center zone) leaves the last-accepted timestamp unchanged;
\* the timestamp changes only when a tap is accepted, and then to the time
\* of that tap.
C27_DroppedTapKeepsTimestamp ==
  [][/\ \A onLink \in BOOLEAN, hasSelection \in BOOLEAN, tapX \in TapXs :
          (TapWith(onLink, hasSelection, tapX)
             /\ tapDroppedBy(onLink, hasSelection, tapX) # "none")
            => UNCHANGED lastNavigationTime
     /\ lastNavigationTime' # lastNavigationTime
          => /\ lastNavigationTime' = now
             /\ lastTap'.by = "none"
             /\ Len(relocQ') = Len(relocQ) + 1]_vars

\* a tap arrived inside the debounce window of an accepted tap and was
\* dropped: the timestamp is still that of the accepted tap
C27_Witness ==
  /\ lastTap.by = "debounce"
  /\ lastNavigationTime = DebounceMs
  /\ now = DebounceMs + TickMs


\* C28: on each relocation processed with a location table and a prior
\* Viewport Range, the start and
\* the end of the Viewport Range are the renderer-supplied index if there is
\* one, otherwise the index resolved from the corresponding fragment,
\* otherwise the end of the prior Viewport Range.
C28_ResolutionPriority ==
  [][(/\ Len(relocQ') < Len(relocQ)
      /\ locTotal > 0
      /\ currentStartLocation # Null
      /\ currentEndLocation # Null)
       => \E ev \in EventsPriority :
            LET fromStart == locationFromCfi(ev.cfi, locTotal)
                fromEnd == IF ev.ecfi = Null THEN Null
                           ELSE locationFromCfi(ev.ecfi, locTotal)
            IN  /\ currentLocation' = ev.cfi
                /\ currentStartLocation' =
                     IF ev.sloc # Null THEN ev.sloc
                     ELSE IF fromStart # Null THEN fromStart
                     ELSE currentEndLocation
                /\ currentEndLocation' =
                     IF ev.eloc # Null THEN ev.eloc
                     ELSE IF fromEnd # Null THEN fromEnd
                     ELSE currentEndLocation]_vars


\* C29: every relocation that carries a displayed total (here every one:
\* each payload reports a section of MaxSectionPages pages) resets the
\* section-local state to sectionPage = 1, sectionTotalPages = the displayed
\* total and sectionStartGlobalPage = the event's start index + 1, whatever
\* advance or retreat had set before.
C29_RelocationResetsSection ==
  [][Len(relocQ') < Len(relocQ)
       => /\ sectionPage' = 1
          /\ sectionTotalPages' = MaxSectionPages
          /\ \E ev \in EventsLong :
               /\ sectionStartGlobalPage' = ev.sloc + 1
               /\ locTotal > 0 => lastRelocatedStart' = ev.sloc]_vars


\* C30: an advance or a retreat that stays inside the section issues no
\* renderer command and leaves the Viewport Range, the last-relocated range,
\* the chapter progress and the fragment handed to the host unchanged, as
\* well as the section's page count and start page and the page shown; it
\* sets the pending page number and, when the content document exists,
\* sectionPage and the visual offset.
C30_InSectionMoveIsLocal ==
  [][(\/ ButtonNext /\ sectionPage < sectionTotalPages
      \/ ButtonPrev /\ sectionPage > 1)
       => /\ UNCHANGED <<relocQ, rendCfi, asyncVars>>
          /\ UNCHANGED <<currentStartLocation, currentEndLocation>>
          /\ UNCHANGED <<lastRelocatedStart, lastRelocatedEnd>>
          /\ UNCHANGED chapterVars
          /\ UNCHANGED locVars
          /\ UNCHANGED <<sectionTotalPages, sectionStartGlobalPage>>
          /\ UNCHANGED <<currentPage, readyVars>>
          /\ pendingPage' \in {sectionStartGlobalPage + sectionPage,
                               sectionStartGlobalPage + sectionPage - 2}
          /\ sectionPage' \in {sectionPage - 1, sectionPage, sectionPage + 1}
          /\ transformOffset' \in {transformOffset, (sectionPage' - 1) * ContainerWidth}]_vars

\* an advance inside a section has moved the content to the section's
\* second page: the renderer has nothing in flight and the tracker holds
\* the range and the fragment of the last relocation
C30_Witness ==
  /\ lastAdv = "in"
  /\ sectionPage = 2
  /\ transformOffset = ContainerWidth
  /\ pendingPage = sectionStartGlobalPage + 1
  /\ relocQ = <<>>
  /\ nextSectionPending = 0
  /\ prevSectionPending = 0
  /\ currentStartLocation # Null
  /\ lastRelocatedStart # Null
  /\ hostCfi # Null

\* C31: for each chapter entry i in table-of-contents order, endIndex(i) =
\* startIndex(i+1) - 1 when a next entry exists and totalLocations - 1 for
\* the last entry; when the next entry resolves to an index not strictly
\* greater than startIndex(i) the range degrades to its own boundary
\* (endIndex(i) = startIndex(i)); every built range satisfies
\* startIndex <= endIndex <= totalLocations - 1.
C31_ChapterRangesTile ==
  \A k \in 1..Len(chapterLocations) :
    LET ch == chapterLocations[k]
    IN  /\ ch.startLocationIndex <= ch.endLocationIndex
        /\ ch.endLocationIndex <= locTotal - 1
        /\ IF k < Len(chapterLocations)
           THEN IF chapterLocations[k + 1].startLocationIndex > ch.startLocationIndex
                THEN ch.endLocationIndex = chapterLocations[k + 1].startLocationIndex - 1
                ELSE ch.endLocationIndex = ch.startLocationIndex
           ELSE ch.endLocationIndex = locTotal - 1

\* C32: the chapter lookup made with the start index of a relocation gives
\* the first range, in table-of-contents order, that contains the index:
\* pagesLeftInChapter is that range's endLocationIndex minus the index, never
\* negative, and the label is that range's; when no range contains the index
\* pagesLeftInChapter is null and the label is empty.
C32_LookupFirstContaining ==
  [][(Len(relocQ') < Len(relocQ) /\ locTotal > 0 /\ lastRelocatedStart' # Null)
       => LET idx == lastRelocatedStart'
              containing == {k \in 1..Len(chapterLocations) :
                               /\ chapterLocations[k].startLocationIndex <= idx
                               /\ idx <= chapterLocations[k].endLocationIndex}
          IN  IF containing = {}
              THEN pagesLeftInChapter' = Null /\ currentChapterName' = 0
              ELSE LET first == CHOOSE k \in containing : \A j \in containing : k <= j
                   IN  /\ pagesLeftInChapter' = chapterLocations[first].endLocationIndex - idx
                       /\ pagesLeftInChapter' >= 0
                       /\ currentChapterName' = chapterLocations[first].label]_vars

\* C32 witness: a relocation at the first index of the second chapter, which
\* is also that chapter's last, has been looked up: nothing is left in the
\* chapter and the label is the second chapter's
C32_Witness ==
  /\ Len(chapterLocations) = 2
  /\ lastRelocatedStart # Null
  /\ chapterLocations[1].endLocationIndex < lastRelocatedStart
  /\ chapterLocations[2].startLocationIndex = lastRelocatedStart
  /\ currentChapterName = chapterLocations[2].label
  /\ pagesLeftInChapter = 0

\* C33: when the resolution of one table-of-contents entry fails, only that
\* entry is skipped: once the generation chain has run, the location table is
\* ready with its total and the chapter table holds the ranges of the whole
\* table of contents or of the table without one entry.
C33_FailureSkipsOneEntry ==
  genState = "done" =>
    /\ isLocationsReady
    /\ totalPages = locTotal
    /\ \E toc \in TwoChapters :
         \/ chapterLocations = buildChapterLocs(toc, locTotal)
         \/ \E k \in 1..Len(toc) :
              chapterLocations = buildChapterLocs([toc EXCEPT ![k] = Null], locTotal)

\* C34: the chapter range table is empty in every state in which the
\* location table is not ready, and it is installed at most once per book
\* session: it changes only from empty, by the completion of the session's
\* own generation, or back to empty when another book is opened.
C34_ChaptersBuiltOnce ==
  [][/\ ~isLocationsReady' => chapterLocations' = <<>>
     /\ chapterLocations' # chapterLocations
          => \/ /\ chapterLocations = <<>>
                /\ genState = "pending"
                /\ genState' = "done"
                /\ isLocationsReady'
                /\ abandoned' = abandoned
             \/ /\ abandoned'.opens > abandoned.opens
                /\ chapterLocations' = <<>>]_vars

\* C34 witness: the second book's table is installed and in use, and the
\* first book's generation, abandoned while running, has completed since
C34_Witness ==
  /\ abandoned.opens > 0
  /\ abandoned.completed > 0
  /\ isLocationsReady
  /\ Len(chapterLocations) = 2
  /\ pagesLeftInChapter # Null

\* C35: at most one hide timer of the indicator is pending at any time,
\* however many triggers arrive before the next paint, and no hide timer of
\* a Reader that has been closed is pending.
C35_OneHideTimer ==
  /\ (IF hideTimer # Null THEN 1 ELSE 0) + abandoned.timers <= 1
  /\ abandoned.timers = 0

C37_FlagEventuallyCleared == isNavigating ~> ~isNavigating

\* C38: processing a relocation issues no display command and leaves no
\* location requested, and a display issued through the location prop is for
\* a requested location that differs from the current one: a relocation
\* reporting a fragment is never answered with a display of that fragment.
C38_NoDisplayLoop ==
  [][/\ Len(relocQ') < Len(relocQ)
          => /\ relocQ' = Tail(relocQ)
             /\ targetLocation' = Null
     /\ targetLocation' # targetLocation /\ targetLocation' # Null
          => \/ /\ targetLocation' # currentLocation
                /\ relocQ' = Append(relocQ, [cause |-> "display", cfi |-> targetLocation'])
             \/ /\ targetLocation' = currentLocation
                /\ relocQ' = relocQ]_vars

\* C38 witness: the host has asked for the fragment the last relocation
\* reported, and no display was issued for it
C38_Witness ==
  /\ currentLocation # Null
  /\ hostCfi = currentLocation
  /\ targetLocation = currentLocation
  /\ relocQ = <<>>
  /\ fontTimers = <<>>

\* C39: within one book session the Viewport Range is null only before the
\* first relocation is processed: every processed relocation leaves both ends
\* set, and no step sets an end that is set back to null.
C39_RangeNullOnlyUninitialized ==
  [][/\ currentStartLocation # Null => currentStartLocation' # Null
     /\ currentEndLocation # Null => currentEndLocation' # Null
     /\ Len(relocQ') < Len(relocQ)
          => /\ currentStartLocation' # Null
             /\ currentEndLocation' # Null]_vars

\* C40: in the page-update coalescer a flush is scheduled if and only if a
\* pending page value exists, and then exactly one flush callback is
\* outstanding, never more; every flush leaves the pending value null and
\* the scheduled flag false.
C40_ScheduledIffPending ==
  /\ [](pageUpdateScheduled <=> pendingPage # Null)
  /\ [](rafPage = (IF pageUpdateScheduled THEN 1 ELSE 0))
  /\ [][rafPage' < rafPage => (pendingPage' = Null /\ ~pageUpdateScheduled')]_vars

\* C40 witness: a page has been flushed into the indicator, and since then
\* two more updates were submitted for which one flush is outstanding
C40_Witness ==
  /\ currentPage > 1
  /\ coalesced
  /\ pendingPage # Null
  /\ pendingPage # currentPage
  /\ pageUpdateScheduled
  /\ rafPage = 1

====
